---- MODULE Spec2Model ----
(***************************************************************************)
(* Authentication and session lifecycle of the task-management service:    *)
(* AuthService (login, refreshTokens, logout, revokeAllRefreshTokens), the *)
(* refresh_tokens table behind a read-committed transaction boundary, and  *)
(* the TTL cache that holds lockout flags, attempt counters and blacklist  *)
(* markers.  Every await of a handler that touches the table, the cache or *)
(* the clock is one step of the calling request.                           *)
(***************************************************************************)
EXTENDS Integers, Sequences, FiniteSets, TLC

(***************************************************************************)
(* Bounds of the model.  The clock counts seconds; durations are scaled to *)
(* a few ticks.                                                            *)
(***************************************************************************)
MaxTime == 2
MaxRecords == 3
(* The page size of the overdue check (BATCH_SIZE, 100 in the program) and the
   number of jobs the queue is let to hold. *)
BatchSize == 2
MaxJobs == 4
AccessSeconds == 2
RefreshSeconds == 1
LockoutSeconds == 2

(* Program constants. *)
MAX_LOGIN_ATTEMPTS == 5
MsPerSecond == 1000
MAX_RETRIES == 3
JobAttempts == 3
(* 15 * 60 * 1000: the lockout duration, in milliseconds *)
LOCKOUT_DURATION == LockoutSeconds * MsPerSecond

(* Concurrent request slots of the server. *)
Procs == {"p1", "p2"}

(* Identities: two registered users and one email nobody registered. *)
Emails == {"alice", "bob", "carol"}
Passwords == {"good", "bad"}

(***************************************************************************)
(* bcrypt: hash and compare.  The dummy hash of simulatePasswordCheck is   *)
(* the hash of no password.                                                *)
(***************************************************************************)
BcryptHash(plain) == <<"bcrypt", plain>>
BcryptCompare(plain, hashed) == hashed = BcryptHash(plain)
DummyHash == <<"bcrypt", "$dummy.hash">>

SeedUsers ==
  { [id |-> "u-alice", email |-> "alice", password |-> BcryptHash("good")],
    [id |-> "u-bob", email |-> "bob", password |-> BcryptHash("good")] }
UserIds == {u.id : u \in SeedUsers}
NoUser == [id |-> "", email |-> "", password |-> <<"bcrypt", "">>]

(***************************************************************************)
(* Signed tokens.  jwtService.signAsync is deterministic: the token is a   *)
(* function of the payload, the secret and the second of issue (iat); the  *)
(* access and the refresh token differ in payload and secret.              *)
(***************************************************************************)
SignAccess(user, t) == [type |-> "access", sub |-> user.id, iat |-> t]
SignRefresh(user, t) == [type |-> "refresh", sub |-> user.id, iat |-> t]
NoToken == [type |-> "none", sub |-> "", iat |-> 0]
BogusToken == [type |-> "refresh", sub |-> "forged", iat |-> 0]
(* A bearer string that jwtService.decode cannot decode: decode returns null. *)
GarbageToken == [type |-> "garbage", sub |-> "", iat |-> 0]
NoPair == [accessToken |-> NoToken, refreshToken |-> NoToken]

VARIABLES
  now,        \* the wall clock, in seconds
  users,      \* the users table
  tokens,     \* the refresh_tokens table (committed rows), in insertion order
  cache,      \* the TTL cache: key -> [present, val, exp]
  proc,       \* per request slot: the call in progress and its locals
  rotated,    \* history: refresh token values a refreshTokens call returned a pair for
  loggedOut,  \* history: refresh token values issued to a user before a completed logout
  revoked,    \* history: access tokens a logout has completed for
  fails,      \* history, per identity: when its failed logins since the last success or lockout ended
  lockedAt,   \* history, per identity: when its lockout flag was last set (-1: never)
  env,        \* the configuration the service was started with (ConfigService)
  svc,        \* CacheService: its Redis keyspace and its last call
  taskStore,  \* the tasks table: id -> the row, or the mark of no row
  taskQueue,  \* the 'task-processing' queue: the waiting jobs, oldest first
  run,        \* OverdueTasksService: the checkOverdueTasks run and its locals
  job,        \* TaskProcessorService: its last process call
  taskCall    \* TasksService: its last update or processBatch call

vars == <<now, users, tokens, cache, proc, rotated, loggedOut, revoked, fails, lockedAt, env, svc,
          taskStore, taskQueue, run, job, taskCall>>

tasksModule == <<taskStore, taskQueue, run, job, taskCall>>

auth == <<now, users, tokens, cache, proc, rotated, loggedOut, revoked, fails, lockedAt, env>>

(***************************************************************************)
(* Configuration: the token lifetimes generateTokenPair reads from          *)
(* ConfigService, and the two security settings of the .env file.          *)
(***************************************************************************)
DefaultEnv ==
  [JWT_ACCESS_EXPIRATION |-> AccessSeconds,
   JWT_REFRESH_EXPIRATION |-> RefreshSeconds,
   MAX_LOGIN_ATTEMPTS |-> 5,
   LOCKOUT_DURATION |-> LockoutSeconds * MsPerSecond]

(* Deployments with another lockout policy. *)
LockoutEnvs ==
  [JWT_ACCESS_EXPIRATION : {AccessSeconds},
   JWT_REFRESH_EXPIRATION : {RefreshSeconds},
   MAX_LOGIN_ATTEMPTS : {3, 5},
   LOCKOUT_DURATION : {(LockoutSeconds - 1) * MsPerSecond, LockoutSeconds * MsPerSecond}]

(* Deployments with another refresh token lifetime. *)
RefreshEnvs ==
  [JWT_ACCESS_EXPIRATION : {AccessSeconds},
   JWT_REFRESH_EXPIRATION : {RefreshSeconds, RefreshSeconds + 1},
   MAX_LOGIN_ATTEMPTS : {5},
   LOCKOUT_DURATION : {LockoutSeconds * MsPerSecond}]

(***************************************************************************)
(* CacheService (common/services): get and set over a Redis client.  A call *)
(* ends by returning a value or by raising an error.                       *)
(***************************************************************************)
Null == [kind |-> "null", v |-> ""]
Returned(value) == [status |-> "returned", value |-> value, error |-> ""]
Raised(error) == [status |-> "raised", value |-> Null, error |-> error]

(* Keys a caller may pass: strings, the empty string, null and a number. *)
CallerKeys ==
  { [kind |-> "string", s |-> "key1"], [kind |-> "string", s |-> "key2"],
    [kind |-> "string", s |-> ""], [kind |-> "null", s |-> ""],
    [kind |-> "number", s |-> "7"] }

(* Values a caller may pass: plain objects and an object that contains itself. *)
CallerValues ==
  { [kind |-> "object", v |-> "foo"], [kind |-> "object", v |-> "bar"],
    [kind |-> "circular", v |-> "self"] }

(* if (!key || typeof key !== 'string') throw new Error('Invalid cache key') *)
GetNamespacedKey(key) ==
  IF key.kind # "string" \/ key.s = ""
    THEN Raised("Invalid cache key")
    ELSE Returned("app:" \o key.s)

(* JSON.stringify inside try/catch: a circular structure throws. *)
Serialize(value) ==
  IF value.kind = "circular"
    THEN Raised("Failed to serialize cache value")
    ELSE Returned([fmt |-> "json", kind |-> value.kind, body |-> value.v])

(* JSON.parse inside try/catch: a string that is not JSON throws. *)
Deserialize(raw) ==
  IF raw.fmt # "json"
    THEN Raised("Failed to deserialize cache value")
    ELSE Returned([kind |-> raw.kind, v |-> raw.body])

(* A stored string that is not JSON, written by another client of the keyspace. *)
InvalidJson == [fmt |-> "text", kind |-> "", body |-> "invalid-json"]

(* Mutant: the catch block of get rethrows. *)
GetCatchRethrows(error) == Raised(error)

(* catch (error) { logger.error(...); return null } *)
GetCatch(error) == Returned(Null)

(* CacheService.get: the result for a keyspace and a Redis client that answers or
   rejects. *)
CacheServiceGetResult(redis, key, redisUp) ==
  LET namespacedKey == GetNamespacedKey(key)
  IN IF namespacedKey.status = "raised" THEN GetCatch(namespacedKey.error)
     ELSE IF ~redisUp THEN GetCatch("Redis error")
     ELSE IF namespacedKey.value \notin DOMAIN redis THEN Returned(Null)
     ELSE LET deserializedValue == Deserialize(redis[namespacedKey.value])
          IN IF deserializedValue.status = "raised"
               THEN GetCatch(deserializedValue.error)
               ELSE deserializedValue

(* CacheService.set: the result; every error is logged and rethrown. *)
CacheServiceSetResult(key, value, redisUp) ==
  LET namespacedKey == GetNamespacedKey(key)
      serializedValue == Serialize(value)
  IN IF namespacedKey.status = "raised" THEN Raised(namespacedKey.error)
     ELSE IF serializedValue.status = "raised" THEN Raised(serializedValue.error)
     ELSE IF ~redisUp THEN Raised("Redis error")
     ELSE Returned(Null)

(* CacheService.set: the keyspace afterwards; redis.set runs only when the key and
   the serialization went through. *)
CacheServiceSetStore(redis, key, value, redisUp) ==
  IF CacheServiceSetResult(key, value, redisUp).status = "raised"
    THEN redis
    ELSE [k \in DOMAIN redis \cup {GetNamespacedKey(key).value} |->
            IF k = GetNamespacedKey(key).value THEN Serialize(value).value ELSE redis[k]]

NoServiceCall ==
  [op |-> "none", key |-> [kind |-> "null", s |-> ""], value |-> Null,
   redisUp |-> TRUE, result |-> Returned(Null), pre |-> <<>>, post |-> <<>>]

CacheServiceGet(key, redisUp) ==
  /\ svc' = [svc EXCEPT !.call =
               [op |-> "get", key |-> key, value |-> Null, redisUp |-> redisUp,
                result |-> CacheServiceGetResult(svc.redis, key, redisUp),
                pre |-> svc.redis, post |-> svc.redis]]
  /\ UNCHANGED <<auth, tasksModule>>

CacheServiceSet(key, value, redisUp) ==
  /\ svc' = [redis |-> CacheServiceSetStore(svc.redis, key, value, redisUp),
             call |-> [op |-> "set", key |-> key, value |-> value, redisUp |-> redisUp,
                       result |-> CacheServiceSetResult(key, value, redisUp),
                       pre |-> svc.redis,
                       post |-> CacheServiceSetStore(svc.redis, key, value, redisUp)]]
  /\ UNCHANGED <<auth, tasksModule>>

(* Another client stores a string that is not JSON under a key of the namespace. *)
RedisForeignWrite(k) ==
  /\ svc' = [svc EXCEPT !.redis =
               [x \in DOMAIN svc.redis \cup {k} |-> IF x = k THEN InvalidJson ELSE svc.redis[x]]]
  /\ UNCHANGED <<auth, tasksModule>>

NextCacheService ==
  \/ \E key \in CallerKeys, redisUp \in BOOLEAN : CacheServiceGet(key, redisUp)
  \/ \E key \in CallerKeys, value \in CallerValues, redisUp \in BOOLEAN :
       CacheServiceSet(key, value, redisUp)
  \/ \E k \in {"app:key1", "app:key2"} : RedisForeignWrite(k)

(* jwtService.decode(accessToken).exp: the payload's exp claim, iat plus the
   expiresIn the token was signed with, whichever secret signed it (decode does not
   verify). *)
DecodeExp(tok) ==
  tok.iat + (IF tok.type = "refresh" THEN env.JWT_REFRESH_EXPIRATION
                                     ELSE env.JWT_ACCESS_EXPIRATION)

(***************************************************************************)
(* The cache (cacheManager.get / set / del).  An entry that reached its    *)
(* expiry reads as absent.                                                 *)
(***************************************************************************)
LockoutKey(email) == [ns |-> "lockout", id |-> email, tok |-> NoToken]
AttemptsKey(email) == [ns |-> "attempts", id |-> email, tok |-> NoToken]
(* Mutant: the key is built from the subject and the issue time of the token, not
   from the token string, so the two tokens of one pair share it. *)
BlacklistKeyByClaims(tok) ==
  [ns |-> "blacklist", id |-> "", tok |-> [tok EXCEPT !.type = "refresh"]]

(* `blacklist:${token}` *)
BlacklistKey(tok) == [ns |-> "blacklist", id |-> "", tok |-> tok]
NoEntry == [present |-> FALSE, val |-> 0, exp |-> 0]

CacheLive(c, k, t) == k \in DOMAIN c /\ c[k].present /\ c[k].exp > t
CacheGet(c, k, t) == IF CacheLive(c, k, t) THEN c[k].val ELSE 0
(* Mutant: the entry is stored without a TTL and never expires. *)
CacheSetWithoutTtl(c, k, v, ttl, t) ==
  [x \in (DOMAIN c) \cup {k} |->
     IF x = k THEN [present |-> TRUE, val |-> v, exp |-> MaxTime + LockoutSeconds + 1]
              ELSE c[x]]

(* set(key, value, ttl): ttl is in milliseconds *)
CacheSet(c, k, v, ttl, t) ==
  [x \in (DOMAIN c) \cup {k} |->
     IF x = k THEN [present |-> TRUE, val |-> v, exp |-> t + (ttl \div MsPerSecond)]
              ELSE c[x]]
CacheDel(c, k) == [x \in (DOMAIN c) \ {k} |-> c[x]]
(* Entries that have expired at time t are gone. *)
CachePurge(c, t) ==
  [x \in {k \in DOMAIN c : c[k].exp > t} |-> c[x]]

(***************************************************************************)
(* The refresh_tokens table.  A row's id is its position.                  *)
(***************************************************************************)
NewRefreshToken(userId, tok, t) ==
  [token |-> tok, userId |-> userId, expiresAt |-> t + RefreshSeconds, isActive |-> TRUE,
   createdAt |-> t]

(* findOne({ where: { token, isActive: true } }): the ids that match. *)
FindActive(tbl, tok) ==
  {i \in 1..Len(tbl) : tbl[i].token = tok /\ tbl[i].isActive}

(* update(RefreshToken, { userId, isActive: true }, { isActive: false }) *)
DeactivateActiveOf(tbl, userId) ==
  [i \in 1..Len(tbl) |->
     IF tbl[i].userId = userId /\ tbl[i].isActive
       THEN [tbl[i] EXCEPT !.isActive = FALSE] ELSE tbl[i]]

(* Mutant: the update carries no where clause. *)
DeactivateEveryRow(tbl, userId) ==
  [i \in 1..Len(tbl) |-> [tbl[i] EXCEPT !.isActive = FALSE]]

(* update(RefreshToken, { userId }, { isActive: false }) *)
DeactivateAllOf(tbl, userId) ==
  [i \in 1..Len(tbl) |->
     IF tbl[i].userId = userId THEN [tbl[i] EXCEPT !.isActive = FALSE] ELSE tbl[i]]

(* Mutant: committing a new refresh row ends the other sessions of its user. *)
ApplyTxnSingleSession(tbl, deact, ins) ==
  [i \in 1..Len(tbl) |->
     IF i = deact \/ (\E j \in 1..Len(ins) : ins[j].userId = tbl[i].userId)
       THEN [tbl[i] EXCEPT !.isActive = FALSE] ELSE tbl[i]] \o ins

(* commitTransaction: the buffered update and inserts reach the table. *)
ApplyTxn(tbl, deact, ins) ==
  [i \in 1..Len(tbl) |->
     IF i = deact THEN [tbl[i] EXCEPT !.isActive = FALSE] ELSE tbl[i]] \o ins

FindByEmail(us, email) ==
  IF \E u \in us : u.email = email
    THEN CHOOSE u \in us : u.email = email
    ELSE NoUser

UserById(us, id) ==
  IF \E u \in us : u.id = id THEN CHOOSE u \in us : u.id = id ELSE NoUser

(***************************************************************************)
(* A request slot.                                                         *)
(***************************************************************************)
NoCall ==
  [op |-> "none", pc |-> "idle", email |-> "", password |-> "",
   token |-> NoToken, userId |-> "", user |-> NoUser, stored |-> 0,
   attempts |-> 0, pair |-> NoPair, deact |-> 0, ins |-> <<>>,
   result |-> "", checkedLocked |-> FALSE, wasRotated |-> FALSE,
   wasLoggedOut |-> FALSE, validAtStart |-> FALSE, preLen |-> 0, failedAt |-> "",
   inLockWindow |-> FALSE, hadCounter |-> FALSE, wasRevoked |-> FALSE,
   steps |-> <<>>, compared |-> <<>>, verified |-> FALSE, cacheFailed |-> FALSE,
   emailTaken |-> FALSE, preUsers |-> 0, userEmail |-> "",
   connected |-> FALSE, began |-> FALSE, commits |-> 0, rollbacks |-> 0,
   releases |-> 0]

Free(p) == proc[p].pc \in {"idle", "done"}

(***************************************************************************)
(* The tasks module: the tasks table, the 'task-processing' queue, the     *)
(* hourly overdue check, the queue worker and TasksService.                *)
(***************************************************************************)
(* The rows of the tasks table in the order a find returns them. *)
TaskOrder == <<"t1", "t2", "t3">>
TaskIds == {TaskOrder[i] : i \in 1..Len(TaskOrder)}
TaskStatus == {"PENDING", "IN_PROGRESS", "COMPLETED", "OVERDUE"}

(* No row with the id. *)
NoTask == [exists |-> FALSE, status |-> "", dueDate |-> 0]
Row(status, dueDate) == [exists |-> TRUE, status |-> status, dueDate |-> dueDate]
NoStore == [id \in TaskIds |-> NoTask]

NoRun ==
  [pc |-> "idle", startedAt |-> 0, skip |-> 0, page |-> <<>>, enqueued |-> <<>>,
   lost |-> {}, dueAtStart |-> {}]
NoJob == [name |-> "", taskId |-> "", status |-> "", attemptsMade |-> 0, attempts |-> 0]
NoProcess ==
  [job |-> NoJob, outcome |-> "", success |-> FALSE, calledService |-> FALSE,
   updateFailed |-> FALSE]
NoTaskCall ==
  [op |-> "", ids |-> <<>>, action |-> "", status |-> "", results |-> <<>>,
   committed |-> FALSE, before |-> NoStore, after |-> NoStore, queued |-> 0]

(* The tasks module after construction, over a tasks table. *)
TasksInit(store) ==
  /\ taskStore = store
  /\ taskQueue = <<>>
  /\ run = NoRun
  /\ job = NoProcess
  /\ taskCall = NoTaskCall

Init ==
  /\ now = 0
  /\ users = SeedUsers
  /\ tokens = <<>>
  /\ cache = [x \in {} |-> NoEntry]
  /\ proc = [p \in Procs |-> NoCall]
  /\ rotated = {}
  /\ loggedOut = {}
  /\ revoked = {}
  /\ fails = [e \in Emails |-> <<>>]
  /\ lockedAt = [e \in Emails |-> -1]
  /\ env = DefaultEnv
  /\ svc = [redis |-> <<>>, call |-> NoServiceCall]
  /\ TasksInit(NoStore)

(* The state after construction, with one of a set of tasks tables. *)
InitTasks(stores) ==
  /\ now = 0
  /\ users = SeedUsers
  /\ tokens = <<>>
  /\ cache = [x \in {} |-> NoEntry]
  /\ proc = [p \in Procs |-> NoCall]
  /\ rotated = {}
  /\ loggedOut = {}
  /\ revoked = {}
  /\ fails = [e \in Emails |-> <<>>]
  /\ lockedAt = [e \in Emails |-> -1]
  /\ env = DefaultEnv
  /\ svc = [redis |-> <<>>, call |-> NoServiceCall]
  /\ \E store \in stores : TasksInit(store)

(* The state after construction under one of a set of configurations. *)
InitWith(envs) ==
  /\ now = 0
  /\ users = SeedUsers
  /\ tokens = <<>>
  /\ cache = [x \in {} |-> NoEntry]
  /\ proc = [p \in Procs |-> NoCall]
  /\ rotated = {}
  /\ loggedOut = {}
  /\ revoked = {}
  /\ fails = [e \in Emails |-> <<>>]
  /\ lockedAt = [e \in Emails |-> -1]
  /\ env \in envs
  /\ svc = [redis |-> <<>>, call |-> NoServiceCall]
  /\ TasksInit(NoStore)

(* Time passes: one second; expired cache entries disappear. *)
Tick ==
  /\ now < MaxTime
  /\ now' = now + 1
  /\ cache' = CachePurge(cache, now + 1)
  /\ UNCHANGED <<users, tokens, proc, rotated, loggedOut, revoked, fails, lockedAt, env, svc, tasksModule>>

(* The calls in flight that will insert a row: the table stays within MaxRecords. *)
Inserting ==
  {q \in Procs : proc[q].pc \notin {"idle", "done"}
                    /\ proc[q].op \in {"login", "refresh", "register"}}
RoomFor(p) == Len(tokens) + Cardinality(Inserting \ {p}) < MaxRecords

(* createQueryRunner, connect, startTransaction: the call holds a connection with
   an open transaction. *)
StartTransaction(c) == [c EXCEPT !.connected = TRUE, !.began = TRUE]

(* The call returns or throws: its transaction and its locals are gone.  A call
   inside its try block that has not committed leaves through the catch block
   (rollbackTransaction), and every call inside it through finally (release). *)
Finish(c, res) ==
  [c EXCEPT !.pc = "done", !.result = res, !.deact = 0, !.ins = <<>>,
            !.attempts = 0, !.user = NoUser,
            !.rollbacks = IF c.began /\ c.commits = 0 THEN @ + 1 ELSE @,
            !.releases = IF c.began THEN @ + 1 ELSE @]

(* rollbackTransaction: the buffered update and inserts are dropped. *)
RollbackTransaction(c) == [c EXCEPT !.deact = 0, !.ins = <<>>]

(* commitTransaction; return { accessToken, refreshToken, user: { id, email, name, role } } *)
Respond(c) ==
  Finish([c EXCEPT !.userEmail = c.user.email, !.commits = @ + 1], "Issued")

(***************************************************************************)
(* login                                                                   *)
(***************************************************************************)
(* The lockout flag of the identity was set less than the lockout duration ago. *)
InLockWindow(email) ==
  lockedAt[email] >= 0 /\ now < lockedAt[email] + LockoutSeconds

(* Mutant: the lockout check is not awaited, so its rejection stops nothing. *)
CheckUserLockoutNotAwaited(email) == FALSE

(* checkUserLockout: TRUE when it throws. *)
CheckUserLockout(email) == CacheGet(cache, LockoutKey(email), now) # 0

(* login up to the end of checkUserLockout: the call as it stands after the check,
   thrown out when the lockout flag is set. *)
LoginEntry(email, password) ==
  LET c == [NoCall EXCEPT !.op = "login", !.email = email, !.password = password,
                          !.checkedLocked = CacheLive(cache, LockoutKey(email), now),
                          !.inLockWindow = InLockWindow(email),
                          !.hadCounter = CacheLive(cache, AttemptsKey(email), now),
                          !.preLen = Len(tokens),
                          !.steps = <<"checkUserLockout">>]
  IN IF CheckUserLockout(email)
       THEN Finish(c, "Account temporarily locked due to too many failed attempts")
       ELSE [StartTransaction(c) EXCEPT !.pc = "l_find"]

(* login entry and checkUserLockout: throws when the lockout flag is set. *)
LoginStart(p, email, password) ==
  /\ Free(p)
  /\ RoomFor(p)
  /\ proc' = [proc EXCEPT ![p] = LoginEntry(email, password)]
  /\ UNCHANGED <<now, users, tokens, cache, rotated, loggedOut, revoked, fails, lockedAt, env, svc, tasksModule>>

(* verifyPassword *)
VerifyPassword(plainPassword, hashedPassword) == BcryptCompare(plainPassword, hashedPassword)

(* Mutant: no comparison is run for an unknown email. *)
SimulatePasswordCheckSkipped(c) == c

(* simulatePasswordCheck: one bcrypt.compare against the fixed dummy hash; its
   result is dropped. *)
SimulatePasswordCheck(c) ==
  [c EXCEPT !.compared = Append(@, DummyHash),
            !.steps = Append(@, "simulatePasswordCheck")]

(* Mutant: an unknown email is turned away without recording a failure. *)
UserNotFoundNotRecorded(c) == Finish(SimulatePasswordCheck(c), "Invalid credentials")

(* if (!user): simulatePasswordCheck, then on to recordFailedAttempt and the throw. *)
UserNotFound(c) == [SimulatePasswordCheck(c) EXCEPT !.pc = "l_rec_get"]

(* verifyPassword against the stored hash; a mismatch goes on to
   recordFailedAttempt and the throw, a match to clearFailedAttempts. *)
PasswordChecked(c, user) ==
  LET isPasswordValid == VerifyPassword(c.password, user.password)
  IN [c EXCEPT !.compared = Append(@, user.password),
               !.steps = Append(@, "verifyPassword"),
               !.verified = isPasswordValid,
               !.pc = IF isPasswordValid THEN "l_clear" ELSE "l_rec_get"]

(* findByEmail, then the branch on the user. *)
LoginFind(p) ==
  /\ proc[p].pc = "l_find"
  /\ LET user == FindByEmail(users, proc[p].email)
         c == [proc[p] EXCEPT !.user = user, !.userId = user.id,
                              !.steps = Append(@, "findByEmail")]
     IN proc' = [proc EXCEPT ![p] =
                   IF user = NoUser THEN UserNotFound(c) ELSE PasswordChecked(c, user)]
  /\ UNCHANGED <<now, users, tokens, cache, rotated, loggedOut, revoked, fails, lockedAt, env, svc, tasksModule>>

(* Mutant: the account locks one failure late. *)
ThresholdReachedLate(newAttempts) == newAttempts > MAX_LOGIN_ATTEMPTS

(* newAttempts >= this.MAX_LOGIN_ATTEMPTS *)
ThresholdReached(newAttempts) == newAttempts >= MAX_LOGIN_ATTEMPTS

(* recordFailedAttempt: read the counter. *)
RecordFailedAttemptRead(p) ==
  /\ proc[p].pc = "l_rec_get"
  /\ LET attempts == CacheGet(cache, AttemptsKey(proc[p].email), now)
         newAttempts == attempts + 1
     IN proc' = [proc EXCEPT ![p] =
                   [@ EXCEPT !.attempts = newAttempts,
                             !.steps = Append(@, "recordFailedAttempt"),
                             !.pc = IF ThresholdReached(newAttempts)
                                      THEN "l_rec_lock" ELSE "l_rec_set"]]
  /\ UNCHANGED <<now, users, tokens, cache, rotated, loggedOut, revoked, fails, lockedAt, env, svc, tasksModule>>

(* The history keeps the last MAX_LOGIN_ATTEMPTS failures. *)
LastFails(f) == IF Len(f) > MAX_LOGIN_ATTEMPTS THEN Tail(f) ELSE f

(* recordFailedAttempt, below the threshold: write the counter; login throws. *)
RecordFailedAttemptWrite(p) ==
  /\ proc[p].pc = "l_rec_set"
  /\ cache' = CacheSet(cache, AttemptsKey(proc[p].email), proc[p].attempts,
                       LOCKOUT_DURATION, now)
  /\ proc' = [proc EXCEPT ![p] = Finish(@, "Invalid credentials")]
  /\ fails' = [fails EXCEPT ![proc[p].email] = LastFails(Append(@, now))]
  /\ UNCHANGED <<now, users, tokens, rotated, loggedOut, revoked, lockedAt, env, svc, tasksModule>>

(* recordFailedAttempt, threshold reached: set the lockout flag. *)
RecordFailedAttemptLock(p) ==
  /\ proc[p].pc = "l_rec_lock"
  /\ cache' = CacheSet(cache, LockoutKey(proc[p].email), 1, LOCKOUT_DURATION, now)
  /\ proc' = [proc EXCEPT ![p] = [@ EXCEPT !.pc = "l_rec_del"]]
  /\ fails' = [fails EXCEPT ![proc[p].email] = <<>>]
  /\ lockedAt' = [lockedAt EXCEPT ![proc[p].email] = now]
  /\ UNCHANGED <<now, users, tokens, rotated, loggedOut, revoked, env, svc, tasksModule>>

(* recordFailedAttempt, threshold reached: delete the counter; login throws. *)
RecordFailedAttemptClear(p) ==
  /\ proc[p].pc = "l_rec_del"
  /\ cache' = CacheDel(cache, AttemptsKey(proc[p].email))
  /\ proc' = [proc EXCEPT ![p] = Finish(@, "Invalid credentials")]
  /\ UNCHANGED <<now, users, tokens, rotated, loggedOut, revoked, fails, lockedAt, env, svc, tasksModule>>

(* Mutant: a successful login leaves the counter. *)
ClearFailedAttemptsSkipped(c, email) == c

(* clearFailedAttempts *)
ClearFailedAttempts(c, email) == CacheDel(c, AttemptsKey(email))

LoginClear(p) ==
  /\ proc[p].pc = "l_clear"
  /\ cache' = ClearFailedAttempts(cache, proc[p].email)
  /\ proc' = [proc EXCEPT ![p] =
                [@ EXCEPT !.steps = Append(@, "clearFailedAttempts"), !.pc = "l_sign"]]
  /\ fails' = [fails EXCEPT ![proc[p].email] = <<>>]
  /\ UNCHANGED <<now, users, tokens, rotated, loggedOut, revoked, lockedAt, env, svc, tasksModule>>

(* generateTokenPair: both tokens are signed at the current second. *)
GenerateTokenPair(user, t) ==
  [accessToken |-> SignAccess(user, t), refreshToken |-> SignRefresh(user, t)]

LoginSign(p) ==
  /\ proc[p].pc = "l_sign"
  /\ proc' = [proc EXCEPT ![p] =
                [@ EXCEPT !.pair = GenerateTokenPair(proc[p].user, now), !.pc = "l_store"]]
  /\ UNCHANGED <<now, users, tokens, cache, rotated, loggedOut, revoked, fails, lockedAt, env, svc, tasksModule>>

(* storeRefreshToken: the new row is saved inside the call's transaction. *)
StoreRefreshToken(c, userId, tok, t) ==
  [c EXCEPT !.ins = Append(@, NewRefreshToken(userId, tok, t))]

LoginStore(p) ==
  /\ proc[p].pc = "l_store"
  /\ proc' = [proc EXCEPT ![p] =
                [StoreRefreshToken(@, proc[p].user.id, proc[p].pair.refreshToken, now)
                   EXCEPT !.pc = "l_commit"]]
  /\ UNCHANGED <<now, users, tokens, cache, rotated, loggedOut, revoked, fails, lockedAt, env, svc, tasksModule>>

(* commitTransaction, then login returns the pair. *)
LoginCommit(p) ==
  /\ proc[p].pc = "l_commit"
  /\ tokens' = ApplyTxn(tokens, proc[p].deact, proc[p].ins)
  /\ proc' = [proc EXCEPT ![p] = Respond(@)]
  /\ UNCHANGED <<now, users, cache, rotated, loggedOut, revoked, fails, lockedAt, env, svc, tasksModule>>

(* Mutant: a failed cache operation is swallowed and the call carries on. *)
CacheOperationFailsOpen(c) ==
  [c EXCEPT !.cacheFailed = TRUE, !.pc = IF c.op = "refresh" THEN "r_save" ELSE "l_sign"]

(* An awaited cacheManager call rejects (the store is unreachable): the rejection
   leaves the call through the catch block, which rolls back and rethrows. *)
CacheOperationFails(c) ==
  Finish([RollbackTransaction(c) EXCEPT !.cacheFailed = TRUE], "Internal failure")

(* checkUserLockout: cacheManager.get rejects, before login opens its transaction. *)
LoginLockoutReadFails(p, email, password) ==
  /\ Free(p)
  /\ RoomFor(p)
  /\ proc' = [proc EXCEPT ![p] =
                CacheOperationFails(
                  [NoCall EXCEPT !.op = "login", !.email = email, !.password = password,
                                 !.preLen = Len(tokens),
                                 !.steps = <<"checkUserLockout">>])]
  /\ UNCHANGED <<now, users, tokens, cache, rotated, loggedOut, revoked, fails, lockedAt, env, svc, tasksModule>>

(* recordFailedAttempt or clearFailedAttempts: the pending get, set or del rejects. *)
LoginCacheFail(p) ==
  /\ proc[p].pc \in {"l_rec_get", "l_rec_set", "l_rec_lock", "l_rec_del", "l_clear"}
  /\ proc' = [proc EXCEPT ![p] = CacheOperationFails(@)]
  /\ UNCHANGED <<now, users, tokens, cache, rotated, loggedOut, revoked, fails, lockedAt, env, svc, tasksModule>>

(* queryRunner.startTransaction rejects after connect took a connection (the
   database refuses the statement): both awaits stand before the try block, so the
   rejection leaves the call past catch and finally.  In login the lockout check
   has passed by then. *)
StartTransactionFails(p, op, email) ==
  /\ Free(p)
  /\ op = "login" => ~CheckUserLockout(email)
  /\ proc' = [proc EXCEPT ![p] =
                Finish([NoCall EXCEPT !.op = op,
                                      !.email = IF op = "refresh" THEN "" ELSE email,
                                      !.steps = IF op = "login"
                                                  THEN <<"checkUserLockout">> ELSE <<>>,
                                      !.preLen = Len(tokens),
                                      !.connected = TRUE],
                       "Internal failure")]
  /\ UNCHANGED <<now, users, tokens, cache, rotated, loggedOut, revoked, fails, lockedAt, env, svc, tasksModule>>

(***************************************************************************)
(* register                                                                *)
(***************************************************************************)
(* Mutant: the lookup at the head of register never finds a user. *)
EmailTakenNeverFound(us, email) == FALSE

(* existingUser: findByEmail found a user with the email. *)
EmailTaken(us, email) == FindByEmail(us, email) # NoUser

(* The users table has no duplicate-email row. *)
UniqueViolationNeverRaised(us, email) == FALSE

(* usersRepository.save fails with a QueryFailedError naming the unique constraint
   on the email when a row with that email is already there. *)
UniqueViolation(us, email) == FindByEmail(us, email) # NoUser

(* usersRepository.create: the new row, with the hashed password. *)
NewUser(email, password) ==
  [id |-> "u-" \o email, email |-> email, password |-> BcryptHash(password)]

(* register entry: the transaction starts, then findByEmail; a taken email throws. *)
RegisterStart(p, email, password) ==
  /\ Free(p)
  /\ RoomFor(p)
  /\ LET c == StartTransaction(
                [NoCall EXCEPT !.op = "register", !.email = email, !.password = password,
                               !.emailTaken = FindByEmail(users, email) # NoUser,
                               !.preUsers = Cardinality(users),
                               !.preLen = Len(tokens)])
     IN proc' = [proc EXCEPT ![p] =
                   IF EmailTaken(users, email)
                     THEN Finish(c, "User with this email already exists")
                     ELSE [c EXCEPT !.pc = "g_find"]]
  /\ UNCHANGED <<now, users, tokens, cache, rotated, loggedOut, revoked, fails, lockedAt, env, svc, tasksModule>>

(* usersService.create: its own findByEmail; a taken email throws ConflictException. *)
RegisterCreateFind(p) ==
  /\ proc[p].pc = "g_find"
  /\ proc' = [proc EXCEPT ![p] =
                IF FindByEmail(users, proc[p].email) # NoUser
                  THEN Finish(@, "Conflict: user with email already exists")
                  ELSE [@ EXCEPT !.pc = "g_save"]]
  /\ UNCHANGED <<now, users, tokens, cache, rotated, loggedOut, revoked, fails, lockedAt, env, svc, tasksModule>>

(* usersService.create: bcrypt.hash and usersRepository.save.  The save goes through
   the repository, not through register's query runner, so it is committed at once;
   a duplicate email is a unique-constraint failure, rethrown as ConflictException. *)
RegisterCreateSave(p) ==
  /\ proc[p].pc = "g_save"
  /\ LET user == NewUser(proc[p].email, proc[p].password)
     IN IF UniqueViolation(users, proc[p].email)
          THEN /\ proc' = [proc EXCEPT ![p] = Finish(@, "Conflict: email already exists")]
               /\ users' = users
          ELSE /\ proc' = [proc EXCEPT ![p] =
                             [@ EXCEPT !.user = user, !.userId = user.id, !.pc = "g_sign"]]
               /\ users' = users \cup {user}
  /\ UNCHANGED <<now, tokens, cache, rotated, loggedOut, revoked, fails, lockedAt, env, svc, tasksModule>>

RegisterSign(p) ==
  /\ proc[p].pc = "g_sign"
  /\ proc' = [proc EXCEPT ![p] =
                [@ EXCEPT !.pair = GenerateTokenPair(proc[p].user, now), !.pc = "g_store"]]
  /\ UNCHANGED <<now, users, tokens, cache, rotated, loggedOut, revoked, fails, lockedAt, env, svc, tasksModule>>

RegisterStore(p) ==
  /\ proc[p].pc = "g_store"
  /\ proc' = [proc EXCEPT ![p] =
                [StoreRefreshToken(@, proc[p].user.id, proc[p].pair.refreshToken, now)
                   EXCEPT !.pc = "g_commit"]]
  /\ UNCHANGED <<now, users, tokens, cache, rotated, loggedOut, revoked, fails, lockedAt, env, svc, tasksModule>>

(* commitTransaction, then register returns the pair and the user summary. *)
RegisterCommit(p) ==
  /\ proc[p].pc = "g_commit"
  /\ tokens' = ApplyTxn(tokens, proc[p].deact, proc[p].ins)
  /\ proc' = [proc EXCEPT ![p] = Respond(@)]
  /\ UNCHANGED <<now, users, cache, rotated, loggedOut, revoked, fails, lockedAt, env, svc, tasksModule>>

(* A step of register after the user was created throws (the signing, the save of
   the refresh row or the commit fails): the catch block rolls the query runner's
   transaction back and rethrows.  The rollback holds the refresh row only. *)
RegisterFail(p) ==
  /\ proc[p].pc \in {"g_sign", "g_store", "g_commit"}
  /\ proc' = [proc EXCEPT ![p] =
                Finish([RollbackTransaction(@) EXCEPT !.failedAt = proc[p].pc],
                       "Internal failure")]
  /\ UNCHANGED <<now, users, tokens, cache, rotated, loggedOut, revoked, fails, lockedAt, env, svc, tasksModule>>

(***************************************************************************)
(* refreshTokens                                                           *)
(***************************************************************************)
(* The access tokens clients hold: one was returned with every stored refresh token. *)
IssuedAccess == {[type |-> "access", sub |-> tokens[i].token.sub, iat |-> tokens[i].token.iat] :
                   i \in 1..Len(tokens)}
IssuedRefresh == {tokens[i].token : i \in 1..Len(tokens)}

(* The store holds an active, unexpired row for tok and the cache no blacklist entry. *)
Presentable(tok) ==
  /\ \E i \in FindActive(tokens, tok) : ~(tokens[i].expiresAt < now)
  /\ CacheGet(cache, BlacklistKey(tok), now) = 0

(* findOne by token value among the active rows, then the expiry test. *)
RefreshStart(p, tok) ==
  /\ Free(p)
  /\ RoomFor(p)
  /\ LET c == StartTransaction(
                [NoCall EXCEPT !.op = "refresh", !.token = tok,
                               !.wasRotated = tok \in rotated,
                               !.wasLoggedOut = tok \in loggedOut,
                               !.validAtStart = Presentable(tok),
                               !.preLen = Len(tokens)])
         ids == FindActive(tokens, tok)
     IN IF ids = {}
          THEN proc' = [proc EXCEPT ![p] = Finish(c, "Invalid refresh token")]
          ELSE \E i \in ids :
                 proc' = [proc EXCEPT ![p] =
                   IF tokens[i].expiresAt < now
                     THEN Finish(c, "Invalid refresh token")
                     ELSE [c EXCEPT !.stored = i,
                                    !.userId = tokens[i].userId,
                                    !.user = UserById(users, tokens[i].userId),
                                    !.pc = "r_black"]]
  /\ UNCHANGED <<now, users, tokens, cache, rotated, loggedOut, revoked, fails, lockedAt, env, svc, tasksModule>>

(* cacheManager.get(`blacklist:${refreshToken}`) *)
RefreshBlacklist(p) ==
  /\ proc[p].pc = "r_black"
  /\ LET isBlacklisted == CacheGet(cache, BlacklistKey(proc[p].token), now) # 0
     IN proc' = [proc EXCEPT ![p] =
                   IF isBlacklisted
                     THEN Finish(@, "Token has been revoked")
                     ELSE [@ EXCEPT !.pc = "r_save"]]
  /\ UNCHANGED <<now, users, tokens, cache, rotated, loggedOut, revoked, fails, lockedAt, env, svc, tasksModule>>

(* cacheManager.get(`blacklist:${refreshToken}`) rejects. *)
RefreshCacheFail(p) ==
  /\ proc[p].pc = "r_black"
  /\ proc' = [proc EXCEPT ![p] = CacheOperationFails(@)]
  /\ UNCHANGED <<now, users, tokens, cache, rotated, loggedOut, revoked, fails, lockedAt, env, svc, tasksModule>>

(* Mutant: the presented row is not invalidated. *)
InvalidateOldSkipped(c) == c

(* storedToken.isActive = false; save(storedToken) inside the transaction. *)
InvalidateOld(c) == [c EXCEPT !.deact = c.stored]

RefreshSave(p) ==
  /\ proc[p].pc = "r_save"
  /\ proc' = [proc EXCEPT ![p] = [InvalidateOld(@) EXCEPT !.pc = "r_sign"]]
  /\ UNCHANGED <<now, users, tokens, cache, rotated, loggedOut, revoked, fails, lockedAt, env, svc, tasksModule>>

RefreshSign(p) ==
  /\ proc[p].pc = "r_sign"
  /\ proc' = [proc EXCEPT ![p] =
                [@ EXCEPT !.pair = GenerateTokenPair(proc[p].user, now), !.pc = "r_store"]]
  /\ UNCHANGED <<now, users, tokens, cache, rotated, loggedOut, revoked, fails, lockedAt, env, svc, tasksModule>>

RefreshStore(p) ==
  /\ proc[p].pc = "r_store"
  /\ proc' = [proc EXCEPT ![p] =
                [StoreRefreshToken(@, proc[p].user.id, proc[p].pair.refreshToken, now)
                   EXCEPT !.pc = "r_commit"]]
  /\ UNCHANGED <<now, users, tokens, cache, rotated, loggedOut, revoked, fails, lockedAt, env, svc, tasksModule>>

(* commitTransaction, then refreshTokens returns the new pair. *)
RefreshCommit(p) ==
  /\ proc[p].pc = "r_commit"
  /\ tokens' = ApplyTxn(tokens, proc[p].deact, proc[p].ins)
  /\ rotated' = rotated \cup {proc[p].token}
  /\ proc' = [proc EXCEPT ![p] = Respond(@)]
  /\ UNCHANGED <<now, users, cache, loggedOut, revoked, fails, lockedAt, env, svc, tasksModule>>

(* A step of refreshTokens throws (the cache read, a save, the signing or the
   commit fails): the catch block rolls the transaction back and rethrows. *)
RefreshFail(p) ==
  /\ proc[p].pc \in {"r_black", "r_save", "r_sign", "r_store", "r_commit"}
  /\ proc' = [proc EXCEPT ![p] =
                Finish([RollbackTransaction(@) EXCEPT !.failedAt = proc[p].pc],
                       "Internal failure")]
  /\ UNCHANGED <<now, users, tokens, cache, rotated, loggedOut, revoked, fails, lockedAt, env, svc, tasksModule>>

(***************************************************************************)
(* logout and revokeAllRefreshTokens                                       *)
(***************************************************************************)
(* Mutant: the marker's TTL is passed in seconds where milliseconds are expected. *)
BlacklistTtlInSeconds(ttl) == ttl

(* ttl * 1000: the marker's TTL in milliseconds *)
BlacklistTtlMs(ttl) == ttl * MsPerSecond

(* decoded.exp - Math.floor(Date.now() / 1000): the seconds the access token has left *)
RemainingSeconds(accessToken, t) == DecodeExp(accessToken) - t

(* decoded?.exp: the token decodes to a payload with an expiry. *)
HasExp(accessToken) == accessToken.type \in {"access", "refresh"}

(* Decode the access token and blacklist it for its remaining lifetime. *)
LogoutStart(p, accessToken, userId) ==
  /\ Free(p)
  /\ LET ttl == IF HasExp(accessToken) THEN RemainingSeconds(accessToken, now) ELSE 0
     IN /\ cache' = IF ttl > 0
                      THEN CacheSet(cache, BlacklistKey(accessToken), 1, BlacklistTtlMs(ttl), now)
                      ELSE cache
        /\ proc' = [proc EXCEPT ![p] =
                      [NoCall EXCEPT !.op = "logout", !.token = accessToken,
                                     !.userId = userId, !.validAtStart = ttl > 0,
                                     !.pc = "o_update"]]
  /\ UNCHANGED <<now, users, tokens, rotated, loggedOut, revoked, fails, lockedAt, env, svc, tasksModule>>

(* update(RefreshToken, { userId, isActive: true }, { isActive: false }); logout returns. *)
LogoutUpdate(p) ==
  /\ proc[p].pc = "o_update"
  /\ tokens' = DeactivateActiveOf(tokens, proc[p].userId)
  /\ loggedOut' = loggedOut \cup
                    {tokens[i].token : i \in {j \in 1..Len(tokens) : tokens[j].userId = proc[p].userId}}
  /\ revoked' = revoked \cup {proc[p].token}
  /\ proc' = [proc EXCEPT ![p] = Finish(@, "LoggedOut")]
  /\ UNCHANGED <<now, users, cache, rotated, fails, lockedAt, env, svc, tasksModule>>

(* The awaited cacheManager.set of the blacklist marker rejects (the store is
   unreachable): logout has no try around it, so the rejection leaves logout
   before the update of the refresh rows. *)
LogoutCacheFail(p, accessToken, userId) ==
  /\ Free(p)
  /\ HasExp(accessToken)
  /\ RemainingSeconds(accessToken, now) > 0
  /\ proc' = [proc EXCEPT ![p] =
                Finish([NoCall EXCEPT !.op = "logout", !.token = accessToken,
                                      !.userId = userId, !.validAtStart = TRUE,
                                      !.cacheFailed = TRUE],
                       "Internal failure")]
  /\ UNCHANGED <<now, users, tokens, cache, rotated, loggedOut, revoked, fails, lockedAt, env, svc, tasksModule>>

RevokeAllRefreshTokens(p, userId) ==
  /\ Free(p)
  /\ tokens' = DeactivateAllOf(tokens, userId)
  /\ proc' = [proc EXCEPT ![p] =
                Finish([NoCall EXCEPT !.op = "revoke", !.userId = userId], "Revoked")]
  /\ UNCHANGED <<now, users, cache, rotated, loggedOut, revoked, fails, lockedAt, env, svc, tasksModule>>

(***************************************************************************)
(* Request authentication (JwtAuthGuard, JwtStrategy)                      *)
(***************************************************************************)
(* The bearer token carries a valid signature and has not expired. *)
JwtVerified(tok) == tok \in IssuedAccess /\ now < DecodeExp(tok)

(* RevocationCache.isRevoked(tokenIdentifier) *)
IsRevoked(tok) == CacheGet(cache, BlacklistKey(tok), now) # 0

(* JwtStrategy.validate(payload): the user of payload.sub must exist. *)
JwtStrategyValidate(sub) == UserById(users, sub) # NoUser

(* An authenticated request: the guard lets it through or answers 401. *)
AuthRequest(p, tok) ==
  /\ Free(p)
  /\ proc' = [proc EXCEPT ![p] =
                Finish([NoCall EXCEPT !.op = "request", !.token = tok,
                                      !.wasRevoked = tok \in revoked,
                                      !.validAtStart = now < DecodeExp(tok)],
                       IF JwtVerified(tok) /\ ~IsRevoked(tok) /\ JwtStrategyValidate(tok.sub)
                         THEN "Authenticated" ELSE "Unauthorized")]
  /\ UNCHANGED <<now, users, tokens, cache, rotated, loggedOut, revoked, fails, lockedAt, env, svc, tasksModule>>

(***************************************************************************)
(* OverdueTasksService.checkOverdueTasks                                   *)
(***************************************************************************)
(* find({ where: { dueDate: LessThan(now), status: PENDING } }): the matching
   rows, in table order. *)
PendingOverdue(store, t) ==
  SelectSeq(TaskOrder,
            LAMBDA id : /\ store[id].exists
                        /\ store[id].status = "PENDING"
                        /\ store[id].dueDate < t)

(* take and skip *)
Page(rows, skip, take) ==
  SubSeq(rows, skip + 1, IF skip + take < Len(rows) THEN skip + take ELSE Len(rows))

(* The 'process-overdue-task' job of a task. *)
OverdueJob(id) ==
  [name |-> "process-overdue-task", taskId |-> id, status |-> "",
   attemptsMade |-> 0, attempts |-> JobAttempts]

(* The cron fires: now = new Date(), skip = 0.  The history keeps the tasks that
   are PENDING and overdue at this moment. *)
CheckOverdueStart ==
  /\ run.pc \in {"idle", "done"}
  /\ run' = [NoRun EXCEPT !.pc = "find", !.startedAt = now,
                          !.dueAtStart =
                            {id \in TaskIds :
                               \E i \in 1..Len(PendingOverdue(taskStore, now)) :
                                 PendingOverdue(taskStore, now)[i] = id}]
  /\ UNCHANGED <<auth, svc, taskStore, taskQueue, job, taskCall>>

(* One page of the loop: find with take and skip; an empty page ends the run. *)
OverdueFind ==
  /\ run.pc = "find"
  /\ LET overdueTasks == Page(PendingOverdue(taskStore, run.startedAt), run.skip, BatchSize)
     IN run' = IF Len(overdueTasks) = 0
                 THEN [run EXCEPT !.pc = "done", !.page = <<>>]
                 ELSE [run EXCEPT !.pc = "add", !.page = overdueTasks]
  /\ UNCHANGED <<auth, svc, taskStore, taskQueue, job, taskCall>>

(* taskQueue.addBulk(jobs), whose failure is logged and skipped; skip += BATCH_SIZE. *)
OverdueAddBulk(queueUp) ==
  /\ run.pc = "add"
  /\ Len(taskQueue) + Len(run.page) <= MaxJobs
  /\ taskQueue' = IF queueUp
                    THEN taskQueue \o [i \in 1..Len(run.page) |-> OverdueJob(run.page[i])]
                    ELSE taskQueue
  /\ run' = [run EXCEPT !.pc = "find",
                        !.skip = @ + BatchSize,
                        !.enqueued = IF queueUp THEN @ \o run.page ELSE @,
                        !.lost = IF queueUp THEN @
                                 ELSE @ \cup {run.page[i] : i \in 1..Len(run.page)},
                        !.page = <<>>]
  /\ UNCHANGED <<auth, svc, taskStore, job, taskCall>>

(***************************************************************************)
(* TaskProcessorService: the queue worker                                  *)
(***************************************************************************)
(* TasksService.updateStatus: findOne (NotFoundException when there is no row),
   then save. *)
UpdateStatus(store, id, status, saveFails) ==
  IF ~store[id].exists \/ saveFails
    THEN [threw |-> TRUE, store |-> store]
    ELSE [threw |-> FALSE, store |-> [store EXCEPT ![id].status = status]]

(* What a handler hands back to process. *)
Handled(success, called, failed, threw, store) ==
  [success |-> success, calledService |-> called, updateFailed |-> failed,
   threw |-> threw, store |-> store]

(* handleStatusUpdate: the input checks, then updateStatus inside a try whose
   catch returns a failure result. *)
HandleStatusUpdate(store, j, saveFails) ==
  IF j.taskId = "" \/ j.status = "" \/ j.status \notin TaskStatus
    THEN Handled(FALSE, FALSE, FALSE, FALSE, store)
    ELSE LET u == UpdateStatus(store, j.taskId, j.status, saveFails)
         IN Handled(~u.threw, TRUE, u.threw, FALSE, u.store)

(* handleOverdueTask: the input check, then updateStatus(taskId, OVERDUE) inside a
   try whose catch returns a failure result. *)
HandleOverdueTask(store, j, saveFails) ==
  IF j.taskId = ""
    THEN Handled(FALSE, FALSE, FALSE, FALSE, store)
    ELSE LET u == UpdateStatus(store, j.taskId, "OVERDUE", saveFails)
         IN Handled(~u.threw, TRUE, u.threw, FALSE, u.store)

(* process: the retry guard, the switch on the job name, and the catch that
   rethrows what a handler throws. *)
Process(store, j, saveFails) ==
  IF j.attemptsMade >= MAX_RETRIES
    THEN [Handled(FALSE, FALSE, FALSE, FALSE, store) EXCEPT !.threw = FALSE]
    ELSE IF j.name = "task-status-update" THEN HandleStatusUpdate(store, j, saveFails)
    ELSE IF j.name = "process-overdue-task" THEN HandleOverdueTask(store, j, saveFails)
    ELSE Handled(FALSE, FALSE, FALSE, FALSE, store)

(* The queue after an attempt: a job whose processor raised is retried while it has
   attempts left; a job whose processor returned is completed. *)
AfterAttempt(queue, j, raised) ==
  IF raised /\ j.attemptsMade + 1 < j.attempts
    THEN Tail(queue) \o <<[j EXCEPT !.attemptsMade = @ + 1]>>
    ELSE Tail(queue)

(* The worker takes the oldest job and runs process on it. *)
ProcessJob(saveFails) ==
  /\ taskQueue # <<>>
  /\ LET j == Head(taskQueue)
         r == Process(taskStore, j, saveFails)
     IN /\ taskStore' = r.store
        /\ job' = [job |-> j, outcome |-> IF r.threw THEN "raised" ELSE "returned",
                   success |-> r.success, calledService |-> r.calledService,
                   updateFailed |-> r.updateFailed]
        /\ taskQueue' = AfterAttempt(taskQueue, j, r.threw)
  /\ UNCHANGED <<auth, svc, run, taskCall>>

(***************************************************************************)
(* TasksService.update                                                     *)
(***************************************************************************)
(* buildUpdateFields: the fields of the dto that are defined. *)
BuildUpdateFields(dto) ==
  {f \in {"title", "status"} : dto[f] # ""}

(* manager.update(Task, { id }, updateFields) *)
ApplyUpdateFields(row, dto) ==
  IF "status" \in BuildUpdateFields(dto) THEN [row EXCEPT !.status = dto.status] ELSE row

(* updatedTask?.status !== updatedTask?.status: the test of the then-callback. *)
StatusDiffers(updatedTask) == updatedTask.status # updatedTask.status

(* The 'task-status-update' job of queueStatusUpdate. *)
StatusUpdateJob(id, status) ==
  [name |-> "task-status-update", taskId |-> id, status |-> status,
   attemptsMade |-> 0, attempts |-> JobAttempts]

(* update(id, dto): the transaction (findOne, buildUpdateFields, update, findOne),
   which a missing task or a database failure makes throw and roll back, and the
   then-callback that queues the status update after the commit. *)
TaskUpdate(id, dto, dbFails) ==
  LET found == taskStore[id].exists
      committed == found /\ ~dbFails
      updatedTask == IF committed THEN ApplyUpdateFields(taskStore[id], dto)
                                  ELSE taskStore[id]
      queues == committed /\ dto.status # "" /\ StatusDiffers(updatedTask)
  IN /\ Len(taskQueue) < MaxJobs
     /\ taskStore' = [taskStore EXCEPT ![id] = updatedTask]
     /\ taskQueue' = IF queues
                       THEN Append(taskQueue, StatusUpdateJob(id, updatedTask.status))
                       ELSE taskQueue
     /\ taskCall' = [NoTaskCall EXCEPT
                       !.op = "update", !.ids = <<id>>, !.status = dto.status,
                       !.committed = committed,
                       !.results = <<IF ~found THEN "NotFound"
                                     ELSE IF dbFails THEN "InternalServerError"
                                     ELSE "Updated">>,
                       !.before = taskStore,
                       !.after = [taskStore EXCEPT ![id] = updatedTask],
                       !.queued = IF queues THEN 1 ELSE 0]
     /\ UNCHANGED <<auth, svc, run, job>>

(***************************************************************************)
(* TasksService.processBatch, bulkUpdate, bulkRemove                       *)
(***************************************************************************)
(* A BulkOperationResult: data says whether the result carries a data field. *)
BulkResult(taskId, success, data, error) ==
  [taskId |-> taskId, success |-> success, data |-> data, error |-> error]

(* The catch of bulkUpdate and bulkRemove: every id fails with the error message. *)
AllFailed(taskIds) ==
  [i \in 1..Len(taskIds) |-> BulkResult(taskIds[i], FALSE, FALSE, TRUE)]

(* The results of bulkUpdate and bulkRemove in input order: not found for a missing
   id, success with data for an id that find returned. *)
FoundOrMissing(store, taskIds) ==
  [i \in 1..Len(taskIds) |->
     IF store[taskIds[i]].exists
       THEN BulkResult(taskIds[i], TRUE, TRUE, FALSE)
       ELSE BulkResult(taskIds[i], FALSE, FALSE, TRUE)]

(* bulkUpdate: find the tasks, report the missing ones, report the found ones as
   updated with the merged data; no statement writes the table. *)
BulkUpdate(store, taskIds, dbFails) ==
  [results |-> IF dbFails THEN AllFailed(taskIds) ELSE FoundOrMissing(store, taskIds),
   store |-> store]

(* bulkRemove: find the tasks, report the missing ones, delete the found ones. *)
BulkRemove(store, taskIds, dbFails) ==
  [results |-> IF dbFails THEN AllFailed(taskIds) ELSE FoundOrMissing(store, taskIds),
   store |-> IF dbFails THEN store
             ELSE [id \in TaskIds |->
                     IF \E i \in 1..Len(taskIds) : taskIds[i] = id
                       THEN NoTask ELSE store[id]]]

(* processCompleteAction and processDeleteAction: one result per id with
   success: true and the data of the bulk result at the same index. *)
AllSucceeded(taskIds, bulkResults) ==
  [i \in 1..Len(taskIds) |-> BulkResult(taskIds[i], TRUE, bulkResults[i].data, FALSE)]

(* processBatch: the switch on the action; an unsupported action throws inside
   the try, whose catch fails every id. *)
ProcessBatch(store, taskIds, action, dbFails) ==
  IF action = "complete"
    THEN LET b == BulkUpdate(store, taskIds, dbFails)
         IN [results |-> AllSucceeded(taskIds, b.results), store |-> b.store]
  ELSE IF action = "delete"
    THEN LET b == BulkRemove(store, taskIds, dbFails)
         IN [results |-> AllSucceeded(taskIds, b.results), store |-> b.store]
  ELSE [results |-> AllFailed(taskIds), store |-> store]

TaskProcessBatch(taskIds, action, dbFails) ==
  LET r == ProcessBatch(taskStore, taskIds, action, dbFails)
  IN /\ taskStore' = r.store
     /\ taskCall' = [NoTaskCall EXCEPT
                       !.op = "processBatch", !.ids = taskIds, !.action = action,
                       !.results = r.results, !.committed = ~dbFails,
                       !.before = taskStore, !.after = r.store]
     /\ UNCHANGED <<auth, svc, taskQueue, run, job>>

(* A job reaches the worker's queue: added by a service (taskQueue.add, addBulk)
   or handed out again by the queue with the attempts it has made. *)
QueueAdd(j) ==
  /\ taskQueue = <<>>
  /\ taskQueue' = <<j>>
  /\ UNCHANGED <<auth, svc, taskStore, run, job, taskCall>>

(***************************************************************************)
(* Specifications                                                          *)
(***************************************************************************)
LoginSteps(p) ==
  \/ LoginFind(p)
  \/ LoginClear(p)
  \/ LoginSign(p)
  \/ LoginStore(p)
  \/ LoginCommit(p)

FailedLoginSteps(p) ==
  \/ RecordFailedAttemptRead(p)
  \/ RecordFailedAttemptWrite(p)
  \/ RecordFailedAttemptLock(p)
  \/ RecordFailedAttemptClear(p)

RegisterSteps(p) ==
  \/ RegisterCreateFind(p)
  \/ RegisterCreateSave(p)
  \/ RegisterSign(p)
  \/ RegisterStore(p)
  \/ RegisterCommit(p)

RefreshSteps(p) ==
  \/ RefreshBlacklist(p)
  \/ RefreshSave(p)
  \/ RefreshSign(p)
  \/ RefreshStore(p)
  \/ RefreshCommit(p)

SessionCalls(p, us) ==
  \/ \E tok \in IssuedRefresh \cup {BogusToken} : RefreshStart(p, tok)
  \/ RefreshSteps(p)
  \/ \E tok \in IssuedAccess : LogoutStart(p, tok, tok.sub)
  \/ LogoutUpdate(p)
  \/ \E u \in us : RevokeAllRefreshTokens(p, u.id)

(* The whole service: every operation, every input, all request slots. *)
Next ==
  \/ Tick
  \/ \E p \in Procs :
       \/ \E e \in Emails, pw \in Passwords : LoginStart(p, e, pw)
       \/ LoginSteps(p)
       \/ FailedLoginSteps(p)
       \/ SessionCalls(p, users)
       \/ \E tok \in IssuedAccess : AuthRequest(p, tok)

Spec == Init /\ [][Next]_vars

(* The service with registration. *)
NextAll ==
  \/ Next
  \/ \E p \in Procs :
       \/ \E e \in Emails, pw \in Passwords : RegisterStart(p, e, pw)
       \/ RegisterSteps(p)

SpecAll == Init /\ [][NextAll]_vars

(* Sessions of one user: concurrent logins with the right password, rotation,
   logout and revocation. *)
OnlyAlice == {u \in users : u.email = "alice"}

NextSession ==
  \/ Tick
  \/ \E p \in Procs :
       \/ \E u \in OnlyAlice : LoginStart(p, u.email, "good")
       \/ LoginSteps(p)
       \/ SessionCalls(p, OnlyAlice)

SpecSession == Init /\ [][NextSession]_vars

(* Sessions of one user, where any step of a rotation may fail. *)
NextSessionFault ==
  \/ NextSession
  \/ \E p \in Procs : RefreshFail(p)

SpecSessionFault == Init /\ [][NextSessionFault]_vars

(* Sessions of all users, one request at a time. *)
NextSessionSeq ==
  \/ Tick
  \/ \E p \in {"p1"} :
       \/ \E u \in users : LoginStart(p, u.email, "good")
       \/ LoginSteps(p)
       \/ SessionCalls(p, users)

SpecSessionSeq == Init /\ [][NextSessionSeq]_vars

(* Sessions and authenticated requests of all users, one request at a time. *)
NextRequests ==
  \/ NextSessionSeq
  \/ \E tok \in IssuedAccess : AuthRequest("p1", tok)

SpecRequests == Init /\ [][NextRequests]_vars

(* Credential checks and lockout: concurrent logins for one identity. *)
NextLockout ==
  \/ Tick
  \/ \E p \in Procs :
       \/ \E pw \in Passwords : LoginStart(p, "alice", pw)
       \/ LoginSteps(p)
       \/ FailedLoginSteps(p)

SpecLockout == Init /\ [][NextLockout]_vars

(* Credential checks and lockout, one request at a time, for a registered and an
   unregistered identity. *)
NextLockoutSeq ==
  \/ Tick
  \/ \E p \in {"p1"} :
       \/ \E e \in {"alice", "carol"}, pw \in Passwords : LoginStart(p, e, pw)
       \/ LoginSteps(p)
       \/ FailedLoginSteps(p)

SpecLockoutSeq == Init /\ [][NextLockoutSeq]_vars

(* CacheService on its own. *)
SpecCacheService == Init /\ [][NextCacheService]_vars

(* Failed and successful logins of one identity, one request at a time, under
   each lockout configuration. *)
NextLockoutConfigured ==
  \/ Tick
  \/ \E p \in {"p1"} :
       \/ \E pw \in Passwords : LoginStart(p, "alice", pw)
       \/ LoginSteps(p)
       \/ FailedLoginSteps(p)

SpecLockoutConfigured == InitWith(LockoutEnvs) /\ [][NextLockoutConfigured]_vars

(* The same, where the clock keeps advancing. *)
SpecLockoutLive == Init /\ [][NextLockoutSeq]_vars /\ WF_vars(Tick)

(* Registration and the logins that follow it, one request at a time. *)
NextRegister ==
  \/ Tick
  \/ \E p \in {"p1"} :
       \/ \E e \in {"alice", "carol"}, pw \in Passwords : RegisterStart(p, e, pw)
       \/ RegisterSteps(p)
       \/ \E u \in users : LoginStart(p, u.email, "good")
       \/ LoginSteps(p)
       \/ FailedLoginSteps(p)

SpecRegister == Init /\ [][NextRegister]_vars

(* Concurrent registrations of one unused email. *)
NextRegisterRace ==
  \/ Tick
  \/ \E p \in Procs :
       \/ \E pw \in Passwords : RegisterStart(p, "carol", pw)
       \/ RegisterSteps(p)

SpecRegisterRace == Init /\ [][NextRegisterRace]_vars

(* Registration where any step after the creation of the user may fail. *)
NextRegisterFault ==
  \/ NextRegister
  \/ RegisterFail("p1")

SpecRegisterFault == Init /\ [][NextRegisterFault]_vars

(* Logins and rotations of one user, one request at a time, where any cache
   operation may fail. *)
NextCacheFault ==
  \/ Tick
  \/ \E p \in {"p1"} :
       \/ \E pw \in Passwords : LoginStart(p, "alice", pw)
       \/ \E pw \in Passwords : LoginLockoutReadFails(p, "alice", pw)
       \/ LoginSteps(p)
       \/ FailedLoginSteps(p)
       \/ LoginCacheFail(p)
       \/ \E tok \in IssuedRefresh : RefreshStart(p, tok)
       \/ RefreshSteps(p)
       \/ RefreshCacheFail(p)

SpecCacheFault == Init /\ [][NextCacheFault]_vars

(* A session of one user in slot p1 and logout calls in slot p2, where logout is
   handed any token the service has issued: logout decodes its argument without
   verifying it. *)
NextSessionAnyBearer ==
  \/ Tick
  \/ \E p \in {"p1"} :
       \/ \E u \in OnlyAlice : LoginStart(p, u.email, "good")
       \/ LoginSteps(p)
       \/ \E tok \in IssuedRefresh \cup {BogusToken} : RefreshStart(p, tok)
       \/ RefreshSteps(p)
  \/ \E p \in {"p2"} :
       \/ \E tok \in IssuedAccess \cup IssuedRefresh : LogoutStart(p, tok, tok.sub)
       \/ LogoutUpdate(p)

SpecSessionAnyBearer == Init /\ [][NextSessionAnyBearer]_vars

(* The operations of the service as the controller calls them, one request at a
   time: logout receives the bearer token of the request, an access token. *)
NextOwnOperations ==
  \/ Tick
  \/ \E p \in {"p1"} :
       \/ \E u \in OnlyAlice, pw \in Passwords : LoginStart(p, u.email, pw)
       \/ LoginSteps(p)
       \/ FailedLoginSteps(p)
       \/ RegisterStart(p, "carol", "good")
       \/ RegisterSteps(p)
       \/ SessionCalls(p, users)

SpecOwnOperations == Init /\ [][NextOwnOperations]_vars

(* Tasks tables for the overdue check: each id has no row, a PENDING row that is
   overdue or not yet due, or a COMPLETED row. *)
OverdueStores ==
  [TaskIds -> {NoTask, Row("PENDING", 0), Row("PENDING", MaxTime + 1),
               Row("COMPLETED", 0)}]

(* The hourly overdue check next to the queue worker; the queue may refuse a batch. *)
NextOverdue ==
  \/ Tick
  \/ CheckOverdueStart
  \/ OverdueFind
  \/ \E queueUp \in BOOLEAN : OverdueAddBulk(queueUp)
  \/ \E saveFails \in BOOLEAN : ProcessJob(saveFails)

SpecOverdue == InitTasks(OverdueStores) /\ [][NextOverdue]_vars

(* The jobs a worker may be handed: the two job types and an unknown one, with and
   without their data, before and at the retry limit. *)
JobInputs ==
  [name : {"task-status-update", "process-overdue-task", "unknown-job"},
   taskId : {"t1", "t2", ""},
   status : {"COMPLETED", "ARCHIVED", ""},
   attemptsMade : {0, MAX_RETRIES},
   attempts : {JobAttempts}]

WorkerStores == [TaskIds -> {NoTask, Row("PENDING", 0)}]

(* The queue worker on its own, one job at a time; the save of a task may fail. *)
NextWorker ==
  \/ \E j \in JobInputs : QueueAdd(j)
  \/ \E saveFails \in BOOLEAN : ProcessJob(saveFails)

SpecWorker == InitTasks(WorkerStores) /\ [][NextWorker]_vars

(* Update requests: with and without a status and a title. *)
UpdateDtos == [title : {"", "renamed"}, status : {"", "PENDING", "COMPLETED"}]

UpdateStores == [TaskIds -> {NoTask, Row("PENDING", 0), Row("COMPLETED", 0)}]

(* TasksService.update calls, one at a time; the database may fail. *)
NextTaskUpdate ==
  \E id \in TaskIds, dto \in UpdateDtos, dbFails \in BOOLEAN : TaskUpdate(id, dto, dbFails)

SpecTaskUpdate == InitTasks(UpdateStores) /\ [][NextTaskUpdate]_vars

(* Batches of up to two task ids, repeated ids included. *)
BatchInputs ==
  {<<>>} \cup {<<a>> : a \in TaskIds} \cup {<<a, b>> : a \in TaskIds, b \in TaskIds}

BatchActions == {"complete", "delete", "archive"}

(* processBatch calls, one at a time; the database may fail. *)
NextBatch ==
  \E taskIds \in BatchInputs, action \in BatchActions, dbFails \in BOOLEAN :
    TaskProcessBatch(taskIds, action, dbFails)

SpecBatch == InitTasks(UpdateStores) /\ [][NextBatch]_vars

(* Logins, registrations and rotations, one request at a time, where the cache or
   the database may fail at any awaited step. *)
NextTransactions ==
  \/ Tick
  \/ \E p \in {"p1"} :
       \/ \E pw \in Passwords : LoginStart(p, "alice", pw)
       \/ LoginSteps(p)
       \/ FailedLoginSteps(p)
       \/ LoginCacheFail(p)
       \/ RegisterStart(p, "carol", "good")
       \/ RegisterSteps(p)
       \/ RegisterFail(p)
       \/ \E tok \in IssuedRefresh \cup {BogusToken} : RefreshStart(p, tok)
       \/ RefreshSteps(p)
       \/ RefreshFail(p)
       \/ \E op \in {"login", "register", "refresh"}, e \in {"alice", "carol"} :
            StartTransactionFails(p, op, e)

SpecTransactions == Init /\ [][NextTransactions]_vars

(* Logins, registrations and rotations, one request at a time, in deployments that
   configure the refresh token lifetime. *)
NextRefreshConfigured ==
  \/ Tick
  \/ \E p \in {"p1"} :
       \/ \E u \in OnlyAlice : LoginStart(p, u.email, "good")
       \/ LoginSteps(p)
       \/ \E pw \in {"good"} : RegisterStart(p, "carol", pw)
       \/ RegisterSteps(p)
       \/ \E tok \in IssuedRefresh : RefreshStart(p, tok)
       \/ RefreshSteps(p)

SpecRefreshConfigured == InitWith(RefreshEnvs) /\ [][NextRefreshConfigured]_vars

(* Logins of one user, one at a time, and logout calls for that user with a live,
   an expired or an undecodable bearer token, where the blacklist write may fail. *)
NextLogoutFault ==
  \/ Tick
  \/ \E p \in {"p1"} :
       \/ \E u \in OnlyAlice : LoginStart(p, u.email, "good")
       \/ LoginSteps(p)
       \/ \E u \in OnlyAlice, tok \in IssuedAccess \cup {GarbageToken} :
            LogoutStart(p, tok, u.id)
       \/ \E u \in OnlyAlice, tok \in IssuedAccess : LogoutCacheFail(p, tok, u.id)
       \/ LogoutUpdate(p)

SpecLogoutFault == Init /\ [][NextLogoutFault]_vars

(* The same wrong-password logins run against two systems side by side: slot p1
   plays the system where the email is registered (alice), slot p2 the one where it
   is not (carol).  Each call starts in both at the same instant. *)
TwinLoginStart ==
  /\ Free("p1") /\ Free("p2")
  /\ proc' = [proc EXCEPT !["p1"] = LoginEntry("alice", "bad"),
                          !["p2"] = LoginEntry("carol", "bad")]
  /\ UNCHANGED <<now, users, tokens, cache, rotated, loggedOut, revoked, fails, lockedAt, env, svc, tasksModule>>

TwinTick == Free("p1") /\ Free("p2") /\ Tick

NextTwin ==
  \/ TwinTick
  \/ TwinLoginStart
  \/ \E p \in Procs :
       \/ LoginFind(p)
       \/ FailedLoginSteps(p)

SpecTwin == Init /\ [][NextTwin]_vars

(***************************************************************************)
(* Properties                                                              *)
(***************************************************************************)
Issued(p) == proc[p].pc = "done" /\ proc[p].result = "Issued"
InvalidRefreshToken(p) ==
  /\ proc[p].pc = "done"
  /\ proc[p].result \in {"Invalid refresh token", "Token has been revoked"}

(* Two refreshTokens calls that ran concurrently on one presented token: both read
   the same active row, so neither had committed when the other looked it up. *)
RacedOn(p, q) ==
  /\ p # q
  /\ proc[p].op = "refresh" /\ proc[q].op = "refresh"
  /\ proc[p].token = proc[q].token
  /\ proc[p].stored # 0 /\ proc[p].stored = proc[q].stored

(* C1: of two concurrent refreshTokens calls presenting the same active, unexpired,
   non-blacklisted refresh token, exactly one returns a new pair and the other fails
   with InvalidRefreshToken; both never succeed. *)
C1_ExactlyOneRotationWins ==
  \A p, q \in Procs :
    (RacedOn(p, q) /\ proc[p].pc = "done" /\ proc[q].pc = "done")
      => \/ Issued(p) /\ InvalidRefreshToken(q)
         \/ Issued(q) /\ InvalidRefreshToken(p)

(* C2: once refreshTokens(t) has returned a new pair, every later call
   refreshTokens(t) fails with InvalidRefreshToken, whatever calls ran in between. *)
C2_SingleUse ==
  \A p \in Procs :
    (proc[p].op = "refresh" /\ proc[p].wasRotated /\ proc[p].pc = "done")
      => InvalidRefreshToken(p)

(* The step is one of a refreshTokens call of slot p. *)
RefreshCallStep(p) == proc'[p] # proc[p] /\ proc'[p].op = "refresh"

(* The committed table changes by exactly: the presented row inactive, one new
   active row of the same user appended. *)
RotationCommitted(p) ==
  /\ proc[p].stored \in 1..Len(tokens)
  /\ Len(tokens') = Len(tokens) + 1
  /\ \A i \in 1..Len(tokens) :
       tokens'[i] = IF i = proc[p].stored
                      THEN [tokens[i] EXCEPT !.isActive = FALSE] ELSE tokens[i]
  /\ tokens'[Len(tokens')].isActive
  /\ tokens'[Len(tokens')].userId = tokens[proc[p].stored].userId

(* C3: rotation is atomic: whatever step of a refreshTokens call returns or throws,
   the committed table either is untouched by the call or has the presented row
   inactive together with exactly one new active row of the same user; the call
   returns a pair exactly in the second case. *)
C3_RotationAtomic ==
  [][\A p \in Procs :
       RefreshCallStep(p) =>
         /\ tokens' = tokens \/ RotationCommitted(p)
         /\ (proc'[p].result = "Issued") <=> RotationCommitted(p)]_vars

(* A rotation failed at commit, after the old row was saved inactive and the new row
   stored inside the transaction: the presented row is still active in the table. *)
C3_Witness ==
  \E p \in Procs :
    /\ proc[p].op = "refresh" /\ proc[p].pc = "done"
    /\ proc[p].result = "Internal failure" /\ proc[p].failedAt = "r_commit"
    /\ tokens[proc[p].stored].isActive
    /\ Len(tokens) = proc[p].preLen

(* C4: refreshTokens(t) returns a new pair if and only if, when it is called, the
   table holds an active row with token value t that has not expired and the cache
   holds no blacklist entry for t; in every other case it fails, issues no tokens and
   adds no row. *)
C4_RefreshIffPresentable ==
  \A p \in Procs :
    (proc[p].op = "refresh" /\ proc[p].pc = "done")
      => /\ Issued(p) <=> proc[p].validAtStart
         /\ ~Issued(p) => /\ proc[p].pair = NoPair
                          /\ Len(tokens) = proc[p].preLen

AccountLocked(p) ==
  /\ proc[p].pc = "done"
  /\ proc[p].result = "Account temporarily locked due to too many failed attempts"

(* The number of most recent failures in f that each ended less than the lockout
   duration after the one before (the counter had not expired in between). *)
RECURSIVE TimelyStreak(_)
TimelyStreak(f) ==
  IF Len(f) <= 1 THEN Len(f)
  ELSE IF f[Len(f)] - f[Len(f) - 1] < LockoutSeconds
         THEN 1 + TimelyStreak(SubSeq(f, 1, Len(f) - 1))
         ELSE 1

(* Every login that starts while the flag's duration is running fails with
   AccountLocked and issues no tokens, whatever its password. *)
LockedWhileFlagRuns ==
  \A p \in Procs :
    (proc[p].op = "login" /\ proc[p].pc = "done" /\ proc[p].inLockWindow)
      => AccountLocked(p) /\ proc[p].pair = NoPair

(* C5 as stated: the MAX_LOGIN_ATTEMPTS-th consecutive, non-overlapping failed login
   of an identity sets its lockout flag (no identity ever has that many failures on
   record since its last success or lockout), and every following login fails with
   AccountLocked until the lockout duration has elapsed. *)
C5_LockoutAfterMaxFailures ==
  /\ \A e \in Emails : Len(fails[e]) < MAX_LOGIN_ATTEMPTS
  /\ LockedWhileFlagRuns

(* C5 amended: the same, for failed logins that each end less than the lockout
   duration after the previous one. *)
C5_LockoutAfterTimelyFailures ==
  /\ \A e \in Emails : TimelyStreak(fails[e]) < MAX_LOGIN_ATTEMPTS
  /\ LockedWhileFlagRuns

(* After the failures locked alice, a login with her correct password was refused. *)
C5_Witness ==
  \E p \in Procs :
    /\ proc[p].op = "login" /\ proc[p].email = "alice" /\ proc[p].password = "good"
    /\ proc[p].inLockWindow /\ AccountLocked(p)

(* C6 as stated: in every interleaving of concurrent logins for one identity, no
   login returns a token pair at a moment when the identity's lockout flag is in the
   cache, logins already in progress when the flag was set included. *)
C6_NoTokensWhileFlagged ==
  [][\A p \in Procs :
       (proc[p].pc # "done" /\ proc'[p].op = "login" /\ proc'[p].pc = "done"
          /\ proc'[p].result = "Issued")
         => ~CacheLive(cache', LockoutKey(proc'[p].email), now')]_vars

(* C6 amended: in every interleaving, a login whose lockout check ran while the flag
   was in the cache fails with AccountLocked and returns no tokens, whatever its
   credentials; only a login that passed its check before the flag was set can
   still return a pair. *)
C6_FlagBlocksLaterLogins ==
  \A p \in Procs :
    (proc[p].op = "login" /\ proc[p].checkedLocked)
      => AccountLocked(p) /\ proc[p].pair = NoPair

(* With another login in flight, a login with the correct password met the flag. *)
C6_Witness ==
  \E p, q \in Procs :
    /\ proc[p].op = "login" /\ proc[p].password = "good" /\ proc[p].checkedLocked
    /\ AccountLocked(p)
    /\ proc[q].op = "login" /\ proc[q].pc \notin {"idle", "done"}

(* C7: once logout has completed for an access token, the cache holds the token's
   blacklist marker at every moment before the token's own expiry: the marker's TTL
   is never shorter than the token's remaining lifetime. *)
C7_MarkerOutlivesToken ==
  \A tok \in revoked :
    now < DecodeExp(tok) => CacheLive(cache, BlacklistKey(tok), now)

(* Time has passed since an access token was issued, its logout has completed, the
   token has not expired and its marker is in the cache. *)
C7_Witness ==
  \E tok \in revoked :
    /\ tok.iat < now /\ now < DecodeExp(tok)
    /\ CacheLive(cache, BlacklistKey(tok), now)

(* C8: after a logout of a user has completed, with no call overlapping it,
   refreshTokens fails with InvalidRefreshToken for every refresh token issued to
   that user before the logout. *)
C8_LogoutEndsRefresh ==
  \A p \in Procs :
    (proc[p].op = "refresh" /\ proc[p].wasLoggedOut /\ proc[p].pc = "done")
      => InvalidRefreshToken(p)

(* C9: a blacklisted access token is refused by request authentication: once logout
   has completed for an access token, every authenticated request carrying it is
   rejected (by the marker until the token expires, by its expiry afterwards). *)
C9_BlacklistedTokenRefused ==
  \A p \in Procs :
    (proc[p].op = "request" /\ proc[p].wasRevoked) => proc[p].result = "Unauthorized"

(* A request carried a token that had not expired and whose logout had completed. *)
C9_Witness ==
  \E p \in Procs :
    /\ proc[p].op = "request" /\ proc[p].wasRevoked /\ proc[p].validAtStart
    /\ proc[p].result = "Unauthorized"

(* The login of slot p presented the password of a registered user. *)
ValidCredentials(p) ==
  /\ FindByEmail(users, proc[p].email) # NoUser
  /\ BcryptCompare(proc[p].password, FindByEmail(users, proc[p].email).password)

(* C10: a login of a registered user with the correct password, the identity not
   being locked, returns an access/refresh pair and commits exactly one new row that
   is active, belongs to the user and holds the returned refresh token; the
   identity's attempt counter is absent afterwards. *)
C10_LoginIssuesAndStores ==
  \A p \in Procs :
    (proc[p].op = "login" /\ proc[p].pc = "done" /\ ~proc[p].checkedLocked
       /\ ValidCredentials(p))
      => /\ Issued(p)
         /\ proc[p].pair.accessToken.type = "access"
         /\ proc[p].pair.refreshToken.type = "refresh"
         /\ Len(tokens) = proc[p].preLen + 1
         /\ tokens[Len(tokens)].token = proc[p].pair.refreshToken
         /\ tokens[Len(tokens)].userId = FindByEmail(users, proc[p].email).id
         /\ tokens[Len(tokens)].isActive
         /\ ~CacheLive(cache, AttemptsKey(proc[p].email), now)

(* A login with the correct password succeeded after earlier failures had left an
   attempt counter. *)
C10_Witness ==
  \E p \in Procs :
    /\ proc[p].op = "login" /\ proc[p].hadCounter /\ Issued(p)
    /\ ~CacheLive(cache, AttemptsKey(proc[p].email), now)

(* The entry of namespace ns for an identity, as a caller of the cache sees it. *)
CacheView(ns, email) ==
  LET k == [ns |-> ns, id |-> email, tok |-> NoToken]
  IN IF CacheLive(cache, k, now) THEN cache[k] ELSE NoEntry

(* C11: login does not reveal whether an email exists: the same wrong-password login
   calls against a registered and against an unregistered email end with the same
   outcome (Invalid credentials, then AccountLocked once the threshold is reached)
   and leave the same attempt counter and lockout flag after every call. *)
C11_SameOutcomeEitherWay ==
  (proc["p1"].pc = "done" /\ proc["p2"].pc = "done")
    => /\ proc["p1"].result = proc["p2"].result
       /\ proc["p1"].pair = NoPair /\ proc["p2"].pair = NoPair
       /\ CacheView("attempts", "alice") = CacheView("attempts", "carol")
       /\ CacheView("lockout", "alice") = CacheView("lockout", "carol")

(* Both systems have counted failures up to the threshold and now answer
   AccountLocked, for the registered and for the unregistered email alike. *)
C11_Witness ==
  /\ AccountLocked("p1") /\ proc["p1"].email = "alice"
  /\ AccountLocked("p2") /\ proc["p2"].email = "carol"
  /\ CacheView("lockout", "carol").present

(* C12: every failing refreshTokens call reports the same single error with the
   same content, whether the presented token is missing from the store, inactive,
   expired or blacklisted. *)
C12_OneRefreshError ==
  \A p \in Procs :
    (proc[p].op = "refresh" /\ proc[p].pc = "done" /\ ~Issued(p))
      => proc[p].result = "Invalid refresh token"

UserAlreadyExists(p) ==
  proc[p].pc = "done" /\ proc[p].result = "User with this email already exists"

(* The refresh rows of the user registered under an email. *)
RecordsOf(email) ==
  {i \in 1..Len(tokens) : tokens[i].userId = NewUser(email, "").id}

(* C13: register with an email that already belongs to a user fails with
   UserAlreadyExists, creates no user, issues no tokens and adds no refresh row;
   register with an unused email creates the user and returns a token pair whose
   user.email is the registered email. *)
C13_RegisterOutcome ==
  \A p \in Procs :
    (proc[p].op = "register" /\ proc[p].pc = "done")
      => IF proc[p].emailTaken
           THEN /\ UserAlreadyExists(p)
                /\ Cardinality(users) = proc[p].preUsers
                /\ proc[p].pair = NoPair
                /\ Len(tokens) = proc[p].preLen
           ELSE /\ Issued(p)
                /\ FindByEmail(users, proc[p].email)
                     = NewUser(proc[p].email, proc[p].password)
                /\ Cardinality(users) = proc[p].preUsers + 1
                /\ proc[p].pair.accessToken.type = "access"
                /\ proc[p].pair.refreshToken.type = "refresh"
                /\ proc[p].userEmail = proc[p].email
                /\ Len(tokens) = proc[p].preLen + 1

(* carol was registered by an earlier call; registering her email again failed. *)
C13_Witness ==
  \E p \in Procs :
    /\ proc[p].op = "register" /\ proc[p].email = "carol"
    /\ proc[p].emailTaken /\ UserAlreadyExists(p)
    /\ RecordsOf("carol") # {}

(* C14: register rolls back entirely: when a register call fails at a step after the
   user was created, the store afterwards holds neither the new user nor a refresh
   row for it, so the same email can be registered again. *)
C14_RegisterRollsBack ==
  \A p \in Procs :
    (proc[p].op = "register" /\ proc[p].pc = "done"
       /\ proc[p].result = "Internal failure")
      => /\ FindByEmail(users, proc[p].email) = NoUser
         /\ RecordsOf(proc[p].email) = {}

(* C15: cache failures fail closed: when a cache operation (get, set or delete)
   fails during a login or a refreshTokens call, the call fails, returns no tokens
   and commits neither a new refresh row nor a deactivation. *)
C15_CacheFailureFailsClosed ==
  \A p \in Procs :
    proc[p].cacheFailed
      => /\ proc[p].pc = "done"
         /\ proc[p].result = "Internal failure"
         /\ proc[p].pair = NoPair
         /\ Len(tokens) = proc[p].preLen
         /\ proc[p].stored # 0 => tokens[proc[p].stored].isActive

(* A login whose password had been verified failed at clearFailedAttempts. *)
C15_Witness ==
  \E p \in Procs :
    /\ proc[p].op = "login" /\ proc[p].cacheFailed /\ proc[p].verified
    /\ proc[p].result = "Internal failure"

(* C16: revokeAllRefreshTokens(userId) leaves every refresh row of that user
   inactive and changes nothing else: the rows of other users keep their isActive
   value, no row is added or removed, and the cache (blacklist, counters, flags) and
   the users are unchanged. *)
C16_RevokeAllFrame ==
  [][\A p \in Procs :
       (proc'[p] # proc[p] /\ proc'[p].op = "revoke")
         => /\ Len(tokens') = Len(tokens)
            /\ \A i \in 1..Len(tokens) :
                 tokens'[i] = IF tokens[i].userId = proc'[p].userId
                                THEN [tokens[i] EXCEPT !.isActive = FALSE]
                                ELSE tokens[i]
            /\ cache' = cache
            /\ users' = users]_vars

(* revokeAllRefreshTokens has returned for alice: her rows are inactive, a row of
   bob is still active and the cache still holds a blacklist marker. *)
C16_Witness ==
  \E p \in Procs :
    /\ proc[p].op = "revoke" /\ proc[p].pc = "done" /\ proc[p].userId = "u-alice"
    /\ \E i \in 1..Len(tokens) : tokens[i].userId = "u-alice"
    /\ \A i \in 1..Len(tokens) : tokens[i].userId = "u-alice" => ~tokens[i].isActive
    /\ \E i \in 1..Len(tokens) : tokens[i].userId = "u-bob" /\ tokens[i].isActive
    /\ \E tok \in revoked : CacheLive(cache, BlacklistKey(tok), now)

(* No login for the identity is in flight. *)
NoLoginInFlight(email) ==
  \A p \in Procs :
    (proc[p].op = "login" /\ proc[p].email = email) => proc[p].pc \in {"idle", "done"}

(* C17: setting the lockout flag clears the counter: in every reachable state in
   which no login for an identity is in flight, if the identity's lockout flag is
   present then its attempt counter is absent, in every interleaving of concurrent
   failed logins. *)
C17_FlagMeansNoCounter ==
  \A e \in Emails :
    (NoLoginInFlight(e) /\ CacheLive(cache, LockoutKey(e), now))
      => ~CacheLive(cache, AttemptsKey(e), now)

(* C18: a successful login resets the failure count: the lockout flag of an identity
   is set only when MAX_LOGIN_ATTEMPTS failed logins for it have been recorded since
   its most recent successful login cleared the counter (the failure that sets the
   flag and MAX_LOGIN_ATTEMPTS - 1 recorded before it), in every interleaving of the
   successful and the failed logins; and a successful login deletes the counter only,
   never the flag. *)
C18_SuccessResetsCount ==
  [][\A p \in Procs :
       /\ (proc[p].pc = "l_rec_lock" /\ proc'[p].pc = "l_rec_del")
            => Len(fails[proc[p].email]) >= MAX_LOGIN_ATTEMPTS - 1
       /\ (proc[p].pc = "l_clear" /\ proc'[p].pc = "l_sign")
            => /\ ~CacheLive(cache', AttemptsKey(proc[p].email), now')
               /\ CacheLive(cache', LockoutKey(proc[p].email), now')
                    <=> CacheLive(cache, LockoutKey(proc[p].email), now)]_vars

(* C19: no permanent lockout: a lockout flag that has been set is eventually absent
   again as time advances (within the modelled time: a flag due by MaxTime), even
   when logins for the identity keep arriving during the lockout; a login rejected
   by the lockout check leaves the cache as it was, so it neither re-sets nor extends
   the flag; and every stored counter or flag carries a TTL of at most the lockout
   duration. *)
C19_NoPermanentLockout ==
  /\ \A e \in Emails :
       (CacheLive(cache, LockoutKey(e), now) /\ cache[LockoutKey(e)].exp <= MaxTime)
         ~> ~CacheLive(cache, LockoutKey(e), now)
  /\ [][\A p \in Procs :
          (proc'[p] # proc[p] /\ proc'[p].op = "login" /\ proc'[p].checkedLocked)
            => cache' = cache]_vars
  /\ [](\A k \in DOMAIN cache :
          k.ns \in {"lockout", "attempts"} => cache[k].exp <= now + LockoutSeconds)

(* alice was locked, a login of hers was rejected during the lockout, and the flag
   has since expired. *)
C19_Witness ==
  \E p \in Procs :
    /\ AccountLocked(p) /\ proc[p].email = "alice"
    /\ lockedAt["alice"] >= 0
    /\ ~CacheLive(cache, LockoutKey("alice"), now)

(* The orders in which a login call runs its steps. *)
LoginOrders ==
  { <<"checkUserLockout", "findByEmail", "verifyPassword", "clearFailedAttempts">>,
    <<"checkUserLockout", "findByEmail", "verifyPassword", "recordFailedAttempt">>,
    <<"checkUserLockout", "findByEmail", "simulatePasswordCheck", "recordFailedAttempt">> }

IsPrefix(a, b) == Len(a) <= Len(b) /\ SubSeq(b, 1, Len(a)) = a

Rejected(p) == proc[p].pc = "done" /\ proc[p].result = "Invalid credentials"

(* The hash a login for the email is to be verified against. *)
HashToCompare(email) ==
  IF FindByEmail(users, email) = NoUser
    THEN DummyHash ELSE FindByEmail(users, email).password

(* C20: every login call runs its steps in the fixed order lockout check, user
   lookup, password verification, and ends in exactly one of Locked, Rejected or
   Issued: a Locked call runs no verification and records no failure; every call that
   passes the lockout check runs exactly one verification, against the stored hash
   when the user exists and against the fixed dummy hash when not; a Rejected call
   records exactly one failure; Issued is reached only after a verification that
   returned true. *)
C20_LoginStepOrder ==
  \A p \in Procs :
    proc[p].op = "login"
      => /\ \E o \in LoginOrders : IsPrefix(proc[p].steps, o)
         /\ proc[p].pc = "done"
              => /\ AccountLocked(p) \/ Rejected(p) \/ Issued(p)
                 /\ AccountLocked(p)
                      => proc[p].steps = <<"checkUserLockout">> /\ proc[p].compared = <<>>
                 /\ ~AccountLocked(p)
                      => proc[p].compared = <<HashToCompare(proc[p].email)>>
                 /\ Rejected(p)
                      => /\ Len(proc[p].steps) = 4
                         /\ proc[p].steps[4] = "recordFailedAttempt"
                         /\ ~proc[p].verified
                 /\ Issued(p)
                      => /\ proc[p].verified
                         /\ proc[p].compared = <<BcryptHash(proc[p].password)>>
                         /\ proc[p].steps[3] = "verifyPassword"

(* A login for the unregistered email was verified against the dummy hash, recorded
   one failure and was rejected. *)
C20_Witness ==
  \E p \in Procs :
    /\ proc[p].op = "login" /\ proc[p].email = "carol" /\ Rejected(p)
    /\ proc[p].compared = <<DummyHash>>
    /\ proc[p].steps[4] = "recordFailedAttempt"

(* The number of most recent failures in f that each ended less than d seconds after
   the one before. *)
RECURSIVE StreakWithin(_, _)
StreakWithin(f, d) ==
  IF Len(f) <= 1 THEN Len(f)
  ELSE IF f[Len(f)] - f[Len(f) - 1] < d
         THEN 1 + StreakWithin(SubSeq(f, 1, Len(f) - 1), d)
         ELSE 1

(* C21: the lockout policy follows the configuration: for every configured
   MAX_LOGIN_ATTEMPTS N and LOCKOUT_DURATION D, the N-th consecutive failed login
   sets the lockout flag (no identity has N timely failures on record without it),
   and the flag is stored with TTL D. *)
C21_LockoutFollowsConfig ==
  \A e \in Emails :
    /\ StreakWithin(fails[e], env.LOCKOUT_DURATION \div MsPerSecond)
         < env.MAX_LOGIN_ATTEMPTS
    /\ CacheLive(cache, LockoutKey(e), now)
         => cache[LockoutKey(e)].exp
              = lockedAt[e] + (env.LOCKOUT_DURATION \div MsPerSecond)

(* The key is a non-empty string. *)
ValidKey(key) == key.kind = "string" /\ key.s # ""

(* What a get is to return: the stored value when the key is valid, Redis answers
   and the stored string is JSON; null in every other case. *)
ExpectedGet(call) ==
  IF /\ ValidKey(call.key) /\ call.redisUp
     /\ ("app:" \o call.key.s) \in DOMAIN call.pre
     /\ call.pre["app:" \o call.key.s].fmt = "json"
    THEN [kind |-> call.pre["app:" \o call.key.s].kind,
          v |-> call.pre["app:" \o call.key.s].body]
    ELSE Null

(* C22: CacheService.get never raises: it returns null on a miss, an invalid key, a
   Redis error and a stored value that cannot be deserialized, and the deserialized
   value otherwise; CacheService.set raises an error for an invalid key or an
   unserializable value and writes nothing in that case. *)
C22_GetNeverRaisesSetDoes ==
  /\ svc.call.op = "get"
       => /\ svc.call.result.status = "returned"
          /\ svc.call.result.value = ExpectedGet(svc.call)
  /\ (svc.call.op = "set"
        /\ (~ValidKey(svc.call.key) \/ svc.call.value.kind = "circular"))
       => /\ svc.call.result.status = "raised"
          /\ svc.call.post = svc.call.pre

(* A get found a string that is not JSON under a valid key and returned null. *)
C22_Witness ==
  /\ svc.call.op = "get" /\ ValidKey(svc.call.key) /\ svc.call.redisUp
  /\ ("app:" \o svc.call.key.s) \in DOMAIN svc.call.pre
  /\ svc.call.pre["app:" \o svc.call.key.s] = InvalidJson
  /\ svc.call.result = Returned(Null)
  /\ \E k \in DOMAIN svc.redis : svc.redis[k].fmt = "json"

(* C23: failure counting tolerates races: once MAX_LOGIN_ATTEMPTS failed logins for
   one identity have completed, with no successful login and no counter expiry in
   between, the identity's lockout flag has been set, in every interleaving, failed
   logins that overlap in time included (no identity has that many timely failures
   on record since its last success or lockout). *)
C23_CountingToleratesRaces ==
  \A e \in Emails : TimelyStreak(fails[e]) < MAX_LOGIN_ATTEMPTS

(* A logout of the user completed while the refreshTokens call of slot p was in
   flight: the presented token was issued before a logout that had not completed
   when the call looked the token up. *)
LogoutOvertook(p) == proc[p].token \in loggedOut /\ ~proc[p].wasLoggedOut

(* C24: logout wins against an in-flight rotation: once a logout of the user has
   completed and the refreshTokens calls that overlapped it have completed too, the
   user has no active row derived by rotating a token issued before the logout: no
   rotation that a logout overtook commits its new active row. *)
C24_LogoutBeatsRotation ==
  [][\A p \in Procs :
       (proc[p].pc = "r_commit" /\ proc'[p].result = "Issued" /\ LogoutOvertook(p))
         => ~tokens'[Len(tokens')].isActive]_vars

(* The call failed because the email belongs to a user: register's own check
   (BadRequestException), or the check or the unique constraint of
   usersService.create (ConflictException). *)
EmailAlreadyExists(p) ==
  /\ proc[p].pc = "done"
  /\ proc[p].result \in {"User with this email already exists",
                         "Conflict: user with email already exists",
                         "Conflict: email already exists"}

(* Both calls are register calls for the same email, both found the email unused
   when they started, and both have completed. *)
RegisterRaceOver(p, q) ==
  /\ p # q
  /\ proc[p].op = "register" /\ proc[q].op = "register"
  /\ proc[p].email = proc[q].email
  /\ ~proc[p].emailTaken /\ ~proc[q].emailTaken
  /\ proc[p].pc = "done" /\ proc[q].pc = "done"

(* C25: of two concurrent register calls with the same previously unused email, at
   most one user with that email exists afterwards and at most one call returns a
   token pair; the other fails because the user already exists and leaves no
   refresh record. *)
C25_OneRegistrationWins ==
  \A p, q \in Procs :
    RegisterRaceOver(p, q)
      => /\ Cardinality({u \in users : u.email = proc[p].email}) <= 1
         /\ ~(Issued(p) /\ Issued(q))
         /\ Issued(p) => (EmailAlreadyExists(q) /\ proc[q].pair = NoPair)
         /\ Cardinality(RecordsOf(proc[p].email)) <= 1

(* Both calls passed both lookups before either saved; the second save failed. *)
C25_Witness ==
  \E p, q \in Procs :
    /\ RegisterRaceOver(p, q)
    /\ Issued(p)
    /\ proc[q].result = "Conflict: email already exists"
    /\ proc[p].password # proc[q].password
    /\ Cardinality(RecordsOf("carol")) = 1
(* The logout call in slot p completes in this step. *)
LogoutCompletes(p) ==
  /\ proc'[p].op = "logout" /\ proc'[p].pc = "done"
  /\ proc[p] # proc'[p]

(* C26: logout always deactivates the user's refresh records, independently of the
   blacklist step: when a logout(accessToken, userId) call completes, every refresh
   record of userId is inactive, whether the marker was written, was not written
   (no decodable expiry, or already expired), or its write to the cache failed. *)
C26_LogoutAlwaysDeactivates ==
  [][\A p \in Procs :
       LogoutCompletes(p)
         => \A i \in 1..Len(tokens') :
              tokens'[i].userId = proc'[p].userId => ~tokens'[i].isActive]_vars
(* C27: the stored lifetime of a refresh record follows the configured refresh TTL:
   under every configured JWT_REFRESH_EXPIRATION, a record created by login,
   register or refreshTokens has expiresAt equal to its creation time plus that
   TTL, which is the instant at which the signed refresh token expires. *)
C27_StoredLifetimeFollowsConfig ==
  \A i \in 1..Len(tokens) :
    /\ tokens[i].expiresAt = tokens[i].createdAt + env.JWT_REFRESH_EXPIRATION
    /\ tokens[i].expiresAt = DecodeExp(tokens[i].token)
(* C28: refresh token values identify records uniquely: no two refresh records hold
   the same token value, and the refresh token returned by refreshTokens(t) differs
   from t, also when it is signed for the same user in the same clock second. *)
C28_TokenValuesUnique ==
  /\ \A i, j \in 1..Len(tokens) : tokens[i].token = tokens[j].token => i = j
  /\ \A p \in Procs :
       (proc[p].op = "refresh" /\ Issued(p)) => proc[p].pair.refreshToken # proc[p].token
(* C29: the blacklist check of refreshTokens is never triggered by the service's own
   operations: the only blacklist keys in the cache are access tokens, written by
   logout, so no refresh token has a blacklist entry and no refreshTokens call fails
   through its blacklist branch. *)
C29_BlacklistHoldsAccessTokensOnly ==
  /\ \A k \in DOMAIN cache :
       k.ns = "blacklist" => (k.tok.type = "access" /\ k.tok \in IssuedAccess)
  /\ \A tok \in IssuedRefresh : BlacklistKey(tok) \notin DOMAIN cache
  /\ \A p \in Procs : proc[p].result # "Token has been revoked"

(* A rotation went through its blacklist check while the marker of an access token
   of the same user was in the cache. *)
C29_Witness ==
  \E p \in Procs :
    /\ proc[p].op = "refresh" /\ Issued(p)
    /\ \E k \in DOMAIN cache :
         /\ k.ns = "blacklist" /\ CacheLive(cache, k, now)
         /\ k.tok.sub = proc[p].token.sub
(* C30: a login rejected by the lockout check has no effect: a login call that meets
   the lockout flag of its identity ends in its lockout check with AccountLocked,
   before the transaction is opened, with no user lookup and no password
   verification, and leaves the attempt counter, the flag with its remaining TTL,
   the blacklist and the refresh store as they were. *)
C30_LockedLoginHasNoEffect ==
  [][\A p \in Procs :
       (proc'[p] # proc[p] /\ proc'[p].op = "login" /\ proc'[p].checkedLocked)
         => /\ Free(p)
            /\ proc'[p].pc = "done"
            /\ proc'[p].result = "Account temporarily locked due to too many failed attempts"
            /\ proc'[p].steps = <<"checkUserLockout">>
            /\ proc'[p].compared = <<>>
            /\ proc'[p].ins = <<>> /\ proc'[p].deact = 0
            /\ proc'[p].pair = NoPair
            /\ cache' = cache
            /\ tokens' = tokens
            /\ users' = users]_vars

(* A login with the correct password was turned away by a flag that had been set in
   an earlier second and is still in the cache, after a login had issued tokens. *)
C30_Witness ==
  \E p \in Procs :
    /\ AccountLocked(p) /\ proc[p].password = "good"
    /\ proc[p].steps = <<"checkUserLockout">>
    /\ CacheLive(cache, LockoutKey(proc[p].email), now)
    /\ lockedAt[proc[p].email] < now
    /\ Len(tokens) > 0
(* C31: in every reachable state and every interleaving of login calls, an attempt
   counter that is in the cache holds a value between 1 and MAX_LOGIN_ATTEMPTS - 1:
   reaching the threshold sets the flag and deletes the counter instead of storing
   the count. *)
C31_CounterBelowThreshold ==
  \A e \in Emails :
    (AttemptsKey(e) \in DOMAIN cache /\ cache[AttemptsKey(e)].present)
      => cache[AttemptsKey(e)].val \in 1..(MAX_LOGIN_ATTEMPTS - 1)

(* The counter stands at its highest value while a failed login that read it is
   about to write. *)
C31_Witness ==
  \E e \in Emails, p \in Procs :
    /\ CacheLive(cache, AttemptsKey(e), now)
    /\ cache[AttemptsKey(e)].val = MAX_LOGIN_ATTEMPTS - 1
    /\ proc[p].email = e /\ proc[p].pc \in {"l_rec_set", "l_rec_lock"}
(* The step of slot p is one that may set row i inactive: the commit of a
   refreshTokens call that was presented row i, the update of a logout of the
   row's user, or revokeAllRefreshTokens for the row's user. *)
MayDeactivate(p, i) ==
  \/ /\ proc[p].pc = "r_commit" /\ proc[p].stored = i
     /\ tokens[i].token = proc[p].token
  \/ proc[p].pc = "o_update" /\ tokens[i].userId = proc[p].userId
  \/ /\ proc'[p].op = "revoke" /\ proc'[p].pc = "done"
     /\ tokens[i].userId = proc'[p].userId
     /\ tokens' = DeactivateAllOf(tokens, proc'[p].userId)

(* The step is the commit of a login, register or refreshTokens call of slot p. *)
IssuingCommit(p) ==
  /\ proc[p].pc \in {"l_commit", "g_commit", "r_commit"}
  /\ proc'[p].result = "Issued"

(* C32: login and register never deactivate existing sessions: a successful login,
   register or refreshTokens call changes isActive of no refresh record other than
   the one presented to refreshTokens, so every other refresh token that was usable
   stays usable; only refreshTokens (its presented record), logout and
   revokeAllRefreshTokens set a record inactive, and no operation sets an inactive
   record active again. *)
C32_SessionsKept ==
  [][/\ Len(tokens') >= Len(tokens)
     /\ \A i \in 1..Len(tokens) :
          /\ tokens'[i].isActive => tokens[i].isActive
          /\ (tokens[i].isActive /\ ~tokens'[i].isActive)
               => \E p \in Procs : MayDeactivate(p, i)
          /\ [tokens'[i] EXCEPT !.isActive = TRUE] = [tokens[i] EXCEPT !.isActive = TRUE]
     /\ \A p \in Procs :
          IssuingCommit(p)
            => \A tok \in IssuedRefresh \ {proc[p].token} :
                 Presentable(tok) => Presentable(tok)']_vars

(* A rotation was issued while an older record of the same user, holding another
   token, was and stays active. *)
C32_Witness ==
  \E p \in Procs :
    /\ proc[p].op = "refresh" /\ Issued(p)
    /\ \E i \in 1..proc[p].preLen :
         /\ tokens[i].isActive
         /\ tokens[i].token.sub = proc[p].token.sub
         /\ tokens[i].token # proc[p].token
         /\ tokens[i].token # proc[p].pair.refreshToken
(* C33: every login call that passes the lockout check, every register call and
   every refreshTokens call ends its transaction exactly once, by commit when it
   returns a result and by rollback when it throws, and releases its query runner
   exactly once on every path; no call commits after a step of it has failed, and
   no call returns a token pair whose refresh record was rolled back. *)
C33_TransactionEndsOnce ==
  \A p \in Procs :
    proc[p].op \in {"login", "register", "refresh"}
      => IF proc[p].pc = "done"
           THEN /\ proc[p].began
                     => /\ proc[p].commits + proc[p].rollbacks = 1
                        /\ proc[p].commits = 1 <=> Issued(p)
                /\ proc[p].connected => proc[p].releases = 1
                /\ Issued(p)
                     => /\ proc[p].failedAt = "" /\ ~proc[p].cacheFailed
                        /\ Len(tokens) > proc[p].preLen
                        /\ \E i \in 1..Len(tokens) :
                             tokens[i].token = proc[p].pair.refreshToken
           ELSE proc[p].commits = 0 /\ proc[p].rollbacks = 0 /\ proc[p].releases = 0
(* The number of times id occurs in a sequence. *)
Occurrences(seq, id) == Cardinality({i \in 1..Len(seq) : seq[i] = id})

(* C34: one run of checkOverdueTasks enqueues a 'process-overdue-task' job exactly
   once for every task that is PENDING with a due date before the start of the run,
   also when queue workers change task statuses while the run pages through the
   tasks, and when a batch fails to be enqueued the other batches are still
   enqueued: at the end of a run every such task outside a failed batch has been
   enqueued once, and nothing else has been. *)
C34_EveryOverdueTaskEnqueuedOnce ==
  run.pc = "done"
    => /\ \A id \in run.dueAtStart \ run.lost : Occurrences(run.enqueued, id) = 1
       /\ \A id \in TaskIds \ run.dueAtStart : Occurrences(run.enqueued, id) = 0
(* C35: a job whose handling fails is retried by the queue: when the update of the
   task fails while a 'task-status-update' or 'process-overdue-task' job is
   processed, process raises an error, and a job whose attemptsMade has reached
   MAX_RETRIES returns a failure result without calling the tasks service. *)
C35_FailedUpdateRaises ==
  /\ job.updateFailed => job.outcome = "raised"
  /\ (job.outcome # "" /\ job.job.attemptsMade >= MAX_RETRIES)
       => (job.outcome = "returned" /\ ~job.success /\ ~job.calledService)
(* C36: TasksService.update enqueues a 'task-status-update' job after its transaction
   has committed whenever the update changed the status of the task, and enqueues
   none when the status is unchanged or the transaction failed. *)
C36_StatusChangeEnqueues ==
  taskCall.op = "update"
    => LET id == taskCall.ids[1]
       IN taskCall.queued =
            IF taskCall.committed
                 /\ taskCall.before[id].status # taskCall.after[id].status
              THEN 1 ELSE 0
(* C37: processBatch returns one result per input task id, in input order; a result
   has success = true only if the task existed and the action was applied to it in
   the store (status COMPLETED for the complete action, the row deleted for the
   delete action); every id that does not exist is reported with success = false
   and an error. *)
C37_BatchResultsMatchStore ==
  taskCall.op = "processBatch"
    => /\ Len(taskCall.results) = Len(taskCall.ids)
       /\ \A i \in 1..Len(taskCall.ids) :
            LET id == taskCall.ids[i]
                res == taskCall.results[i]
            IN /\ res.taskId = id
               /\ res.success
                    => /\ taskCall.before[id].exists
                       /\ taskCall.action = "complete"
                            => /\ taskCall.after[id].exists
                               /\ taskCall.after[id].status = "COMPLETED"
                       /\ taskCall.action = "delete" => ~taskCall.after[id].exists
               /\ ~taskCall.before[id].exists => (~res.success /\ res.error)
====
